---- MODULE Spec2Model ----
(***************************************************************************)
(* Path-planning engine of the Pathfinding demo: the grid search family    *)
(* (astar, dijkstra, greedyBestFirst, jps, thetaStar, rrt), the navmesh    *)
(* builder and search family, and the dispatcher (AlgorithmRunner).        *)
(*                                                                         *)
(* A position {row, col} is the pair <<row, col>>, rows and columns        *)
(* counted from 0 as in the source.  A grid is the set of its obstacle     *)
(* cells: grid[r][c].isObstacle is <<r, c>> \in grid.  The Map and Set     *)
(* keys `${row},${col}` are the pairs themselves.                          *)
(*                                                                         *)
(* Distances are IEEE doubles in the source (Math.sqrt).  Here a distance  *)
(* is an integer number of units of 1/Scale: sqrt(k*k*s), s square-free,   *)
(* is k * floor(sqrt(s) * Scale), so that sums that are equal as reals are *)
(* equal here.  A path cost, rounded by the source to one decimal, is      *)
(* carried in tenths.                                                      *)
(***************************************************************************)
EXTENDS Integers, Sequences, FiniteSets, TLC

\* Largest grid of the exhaustive family: every grid of Rows x Cols cells.
Rows == 3
Cols == 3
\* Side of the empty square grid of the concrete scenario.
ScenarioSize == 10
\* Most obstacle cells of a grid of the exhaustive family.
MaxObstacles == 3
\* Cap of the sampling planners' iteration budget (maxIterations).
MaxIterations == 2
\* A search's while loop is given 2^LoopBits iterations to return.
LoopBits == 10
\* The long empty grid on which waypoints lie farther apart than an edge may span.
CorridorRows == 3
CorridorCols == 23
\* The grid on which the components are exercised on their own.
SmallRows == 2
SmallCols == 3
\* Longest waypoint path handed to funnelAlgorithm.
MaxPathLength == 4
\* PriorityQueue on its own: calls of enqueue, calls of dequeue, largest priority.
MaxEnqueues == 4
MaxDequeues == 5
MaxPriority == 2

VARIABLES rows, cols, grid, mapType, agent, navmesh, result, pc, localNavmesh,
          tree, iter, nodesExplored, exploredNodes,
          search, queue, enqueued, dequeued, funnelInput, funnelOutput

\* The state of the components exercised on their own: the loop state of a
\* queue-driven search taken one dequeue at a time, a PriorityQueue with the
\* priorities of its enqueues in call order (an element is named by the
\* ordinal of its enqueue) and the values its dequeues returned, and
\* funnelAlgorithm's argument and return value.
parts == <<search, queue, enqueued, dequeued, funnelInput, funnelOutput>>

vars == <<rows, cols, grid, mapType, agent, navmesh, result, pc, localNavmesh,
          tree, iter, nodesExplored, exploredNodes, parts>>

\* The no-result value, the state before any query, and a raised exception.
Null == [null |-> TRUE]
None == [none |-> TRUE]
Thrown == [error |-> "TypeError"]

\* The loop state of a search still running, as opposed to a value it returned.
Searching(st) == "openSet" \in DOMAIN st

Row(p) == p[1]
Col(p) == p[2]
Abs(x) == IF x < 0 THEN -x ELSE x
Max2(a, b) == IF a > b THEN a ELSE b
Min2(a, b) == IF a < b THEN a ELSE b

Cells(nrows, ncols) == (0 .. nrows - 1) \X (0 .. ncols - 1)
InBounds(p, nrows, ncols) ==
    Row(p) >= 0 /\ Row(p) < nrows /\ Col(p) >= 0 /\ Col(p) < ncols

\* Map.set(k, v) on a Map held as a function; Map.has(k) is k \in DOMAIN m.
MapSet(m, k, v) == [x \in (DOMAIN m) \cup {k} |-> IF x = k THEN v ELSE m[x]]
EmptyMap == [x \in {} |-> 0]

(***************************************************************************)
(* Fixed-point square roots.                                               *)
(***************************************************************************)
\* Binary digits kept after the point.
ScaleBits == 20
RECURSIVE Pow2(_)
Pow2(n) == IF n = 0 THEN 1 ELSE 2 * Pow2(n - 1)
Scale == Pow2(ScaleBits)

RECURSIVE ISqrtFrom(_, _)
ISqrtFrom(n, r) == IF (r + 1) * (r + 1) > n THEN r ELSE ISqrtFrom(n, r + 1)
ISqrt(n) == ISqrtFrom(n, 0)

\* floor(sqrt(n) * 2^bits), one binary digit at a time: r is the root so far
\* and rem = (n * 4^done) - r*r.
RECURSIVE SqrtDigits(_, _, _)
SqrtDigits(r, rem, bits) ==
    IF bits = 0 THEN r
    ELSE IF 4 * rem >= 4 * r + 1
         THEN SqrtDigits(2 * r + 1, 4 * rem - (4 * r + 1), bits - 1)
         ELSE SqrtDigits(2 * r, 4 * rem, bits - 1)
RootScaled(s) == SqrtDigits(ISqrt(s), s - ISqrt(s) * ISqrt(s), ScaleBits)

\* The largest k with k*k dividing n (n > 0).
RECURSIVE SquarePartFrom(_, _)
SquarePartFrom(n, k) ==
    IF k = 1 THEN 1
    ELSE IF n % (k * k) = 0 THEN k ELSE SquarePartFrom(n, k - 1)
SquarePart(n) == SquarePartFrom(n, ISqrt(n))

MaxDim == Max2(Max2(Max2(Rows, Cols), ScenarioSize), Max2(CorridorRows, CorridorCols))
SqrtTable == [n \in 0 .. 2 * MaxDim * MaxDim |->
                 IF n = 0 THEN 0
                 ELSE SquarePart(n) * RootScaled(n \div (SquarePart(n) * SquarePart(n)))]
\* Math.sqrt(n) in units of 1/Scale.
Sqrt(n) == SqrtTable[n]

DistSq(a, b) ==
    (Row(a) - Row(b)) * (Row(a) - Row(b)) + (Col(a) - Col(b)) * (Col(a) - Col(b))
\* A distance that forgets the square root: the squared distance.
DistanceSquared(a, b) == Scale * DistSq(a, b)
\* distance(a, b), in units of 1/Scale.
distance(a, b) == Sqrt(DistSq(a, b))
\* Math.round(dist * 10) / 10, in tenths.
RoundTenths(d) == (10 * d + Scale \div 2) \div Scale

(***************************************************************************)
(* PriorityQueue: elements is kept sorted by priority; Array.sort is       *)
(* stable, so a pushed entry ends after every entry of priority <= its own.*)
(***************************************************************************)
RECURSIVE SortedInsert(_, _)
SortedInsert(elements, entry) ==
    IF elements = <<>> THEN <<entry>>
    ELSE IF Head(elements).priority <= entry.priority
         THEN <<Head(elements)>> \o SortedInsert(Tail(elements), entry)
         ELSE <<entry>> \o elements
\* A sort that is not stable: a pushed entry goes before the entries of its priority.
RECURSIVE InsertBeforeEqual(_, _)
InsertBeforeEqual(elements, entry) ==
    IF elements = <<>> THEN <<entry>>
    ELSE IF Head(elements).priority < entry.priority
         THEN <<Head(elements)>> \o InsertBeforeEqual(Tail(elements), entry)
         ELSE <<entry>> \o elements
EnqueueBeforeEqual(elements, element, priority) ==
    InsertBeforeEqual(elements, [element |-> element, priority |-> priority])
\* An enqueue whose comparator is reversed: the largest priority comes first.
RECURSIVE InsertDescending(_, _)
InsertDescending(elements, entry) ==
    IF elements = <<>> THEN <<entry>>
    ELSE IF Head(elements).priority >= entry.priority
         THEN <<Head(elements)>> \o InsertDescending(Tail(elements), entry)
         ELSE <<entry>> \o elements
EnqueueDescending(elements, element, priority) ==
    InsertDescending(elements, [element |-> element, priority |-> priority])
enqueue(elements, element, priority) ==
    SortedInsert(elements, [element |-> element, priority |-> priority])
\* dequeue returns elements.shift()?.element; the queue left is Tail.
Front(elements) == Head(elements).element
isEmpty(elements) == elements = <<>>

(***************************************************************************)
(* Shared helpers of the grid search family.                               *)
(***************************************************************************)
\* heuristic(a, b): Manhattan distance.
heuristic(a, b) == Abs(Row(a) - Row(b)) + Abs(Col(a) - Col(b))

Directions4 == << <<-1, 0>>, <<1, 0>>, <<0, -1>>, <<0, 1>> >>
Diagonals == << <<-1, -1>>, <<-1, 1>>, <<1, -1>>, <<1, 1>> >>

\* A getNeighbors that forgets the obstacle test.
GetNeighborsThroughObstacles(cell, g, nrows, ncols, allowDiagonal) ==
    LET directions == IF allowDiagonal THEN Directions4 \o Diagonals ELSE Directions4
        moved == [k \in 1 .. Len(directions) |->
                     <<Row(cell) + directions[k][1], Col(cell) + directions[k][2]>>]
    IN SelectSeq(moved, LAMBDA p : InBounds(p, nrows, ncols))

\* A getNeighbors that takes the diagonal moves whatever allowDiagonal says.
GetNeighborsAllEight(cell, g, nrows, ncols, allowDiagonal) ==
    LET directions == Directions4 \o Diagonals
        moved == [k \in 1 .. Len(directions) |->
                     <<Row(cell) + directions[k][1], Col(cell) + directions[k][2]>>]
    IN SelectSeq(moved, LAMBDA p : InBounds(p, nrows, ncols) /\ p \notin g)

getNeighbors(cell, g, nrows, ncols, allowDiagonal) ==
    LET directions == IF allowDiagonal THEN Directions4 \o Diagonals ELSE Directions4
        moved == [k \in 1 .. Len(directions) |->
                     <<Row(cell) + directions[k][1], Col(cell) + directions[k][2]>>]
    IN SelectSeq(moved, LAMBDA p : InBounds(p, nrows, ncols) /\ p \notin g)

\* A reconstructPath that stops one node early and so leaves the start out.
RECURSIVE ReconstructPathWithoutStart(_, _)
ReconstructPathWithoutStart(cameFrom, current) ==
    IF current \in DOMAIN cameFrom
    THEN ReconstructPathWithoutStart(cameFrom, cameFrom[current]) \o <<current>>
    ELSE <<>>

RECURSIVE reconstructPath(_, _)
reconstructPath(cameFrom, current) ==
    IF current \in DOMAIN cameFrom
    THEN reconstructPath(cameFrom, cameFrom[current]) \o <<current>>
    ELSE <<current>>

\* calculatePathDistance(path), in units of 1/Scale before rounding.
RECURSIVE PathDistanceFrom(_, _)
PathDistanceFrom(path, k) ==
    IF k >= Len(path) THEN 0
    ELSE distance(path[k], path[k + 1]) + PathDistanceFrom(path, k + 1)
calculatePathDistance(path) == RoundTenths(PathDistanceFrom(path, 1))

\* The result object of a grid search; pathCost is in tenths.
GridResult(path, explored, cost) ==
    [path |-> path,
     metrics |-> [nodesExplored |-> explored, pathLength |-> Len(path),
                  pathCost |-> cost]]

(***************************************************************************)
(* astar                                                                   *)
(***************************************************************************)
\* The for loop over the neighbours of current, from the k-th on.
RECURSIVE AStarRelax(_, _, _, _, _)
AStarRelax(st, current, neighbors, k, goal) ==
    IF k > Len(neighbors) THEN st
    ELSE LET neighbor == neighbors[k]
             tentativeGScore == st.gScore[current] + 1
         IN IF neighbor \in st.visited
            THEN AStarRelax(st, current, neighbors, k + 1, goal)
            ELSE IF neighbor \notin DOMAIN st.gScore \/ tentativeGScore < st.gScore[neighbor]
                 THEN AStarRelax(
                        [st EXCEPT
                           !.cameFrom = MapSet(@, neighbor, current),
                           !.gScore = MapSet(@, neighbor, tentativeGScore),
                           !.openSet = enqueue(@, neighbor,
                                               tentativeGScore + heuristic(neighbor, goal))],
                        current, neighbors, k + 1, goal)
                 ELSE AStarRelax(st, current, neighbors, k + 1, goal)

\* The while loop: the goal test comes before the node is closed and counted,
\* and a dequeued node is not tested against visited.
AStarStep(st, g, goal, nrows, ncols) ==
    IF isEmpty(st.openSet) THEN Null
    ELSE LET current == Front(st.openSet)
         IN IF current = goal
            THEN LET path == reconstructPath(st.cameFrom, current)
                 IN GridResult(path, st.nodesExplored, 10 * (Len(path) - 1))
            ELSE AStarRelax([st EXCEPT !.openSet = Tail(@),
                                         !.visited = @ \cup {current},
                                         !.nodesExplored = @ + 1],
                              current, getNeighbors(current, g, nrows, ncols, FALSE), 1, goal)

RECURSIVE AStarLoop(_, _, _, _, _, _)
AStarLoop(st, n, g, goal, nrows, ncols) ==
    IF ~Searching(st) THEN st
    ELSE IF n = 0 THEN AStarStep(st, g, goal, nrows, ncols)
    ELSE AStarLoop(AStarLoop(st, n - 1, g, goal, nrows, ncols),
                  n - 1, g, goal, nrows, ncols)

astar(g, start, goal, nrows, ncols) ==
    AStarLoop([openSet |-> enqueue(<<>>, start, heuristic(start, goal)),
               cameFrom |-> EmptyMap,
               gScore |-> MapSet(EmptyMap, start, 0),
               visited |-> {},
               nodesExplored |-> 0],
              LoopBits, g, goal, nrows, ncols)

(***************************************************************************)
(* dijkstra                                                                *)
(***************************************************************************)
RECURSIVE DijkstraRelax(_, _, _, _)
DijkstraRelax(st, current, neighbors, k) ==
    IF k > Len(neighbors) THEN st
    ELSE LET neighbor == neighbors[k]
             newDistance == st.gScore[current] + 1
         IN IF neighbor \in st.visited
            THEN DijkstraRelax(st, current, neighbors, k + 1)
            ELSE IF neighbor \notin DOMAIN st.gScore \/ newDistance < st.gScore[neighbor]
                 THEN DijkstraRelax(
                        [st EXCEPT
                           !.gScore = MapSet(@, neighbor, newDistance),
                           !.cameFrom = MapSet(@, neighbor, current),
                           !.openSet = enqueue(@, neighbor, newDistance)],
                        current, neighbors, k + 1)
                 ELSE DijkstraRelax(st, current, neighbors, k + 1)

DijkstraStep(st, g, goal, nrows, ncols) ==
    IF isEmpty(st.openSet) THEN Null
    ELSE LET current == Front(st.openSet)
             popped == [st EXCEPT !.openSet = Tail(@)]
             closed == [popped EXCEPT !.visited = @ \cup {current},
                                      !.nodesExplored = @ + 1]
         IN IF current \in st.visited
            THEN popped
            ELSE IF current = goal
                 THEN LET path == reconstructPath(st.cameFrom, current)
                      IN GridResult(path, closed.nodesExplored, 10 * (Len(path) - 1))
                 ELSE DijkstraRelax(closed, current,
                                      getNeighbors(current, g, nrows, ncols, FALSE), 1)

RECURSIVE DijkstraLoop(_, _, _, _, _, _)
DijkstraLoop(st, n, g, goal, nrows, ncols) ==
    IF ~Searching(st) THEN st
    ELSE IF n = 0 THEN DijkstraStep(st, g, goal, nrows, ncols)
    ELSE DijkstraLoop(DijkstraLoop(st, n - 1, g, goal, nrows, ncols),
                     n - 1, g, goal, nrows, ncols)

dijkstra(g, start, goal, nrows, ncols) ==
    DijkstraLoop([openSet |-> enqueue(<<>>, start, 0),
                  cameFrom |-> EmptyMap,
                  gScore |-> MapSet(EmptyMap, start, 0),
                  visited |-> {},
                  nodesExplored |-> 0],
                 LoopBits, g, goal, nrows, ncols)

(***************************************************************************)
(* greedyBestFirst                                                         *)
(***************************************************************************)
RECURSIVE GreedyRelax(_, _, _, _, _)
GreedyRelax(st, current, neighbors, k, goal) ==
    IF k > Len(neighbors) THEN st
    ELSE LET neighbor == neighbors[k]
         IN IF neighbor \in st.visited
            THEN GreedyRelax(st, current, neighbors, k + 1, goal)
            ELSE IF neighbor \notin DOMAIN st.cameFrom
                 THEN GreedyRelax(
                        [st EXCEPT
                           !.cameFrom = MapSet(@, neighbor, current),
                           !.openSet = enqueue(@, neighbor, heuristic(neighbor, goal))],
                        current, neighbors, k + 1, goal)
                 ELSE GreedyRelax(st, current, neighbors, k + 1, goal)

GreedyStep(st, g, goal, nrows, ncols) ==
    IF isEmpty(st.openSet) THEN Null
    ELSE LET current == Front(st.openSet)
             popped == [st EXCEPT !.openSet = Tail(@)]
             closed == [popped EXCEPT !.visited = @ \cup {current},
                                      !.nodesExplored = @ + 1]
         IN IF current \in st.visited
            THEN popped
            ELSE IF current = goal
                 THEN LET path == reconstructPath(st.cameFrom, current)
                      IN GridResult(path, closed.nodesExplored, 10 * (Len(path) - 1))
                 ELSE GreedyRelax(closed, current,
                                    getNeighbors(current, g, nrows, ncols, FALSE), 1, goal)

RECURSIVE GreedyLoop(_, _, _, _, _, _)
GreedyLoop(st, n, g, goal, nrows, ncols) ==
    IF ~Searching(st) THEN st
    ELSE IF n = 0 THEN GreedyStep(st, g, goal, nrows, ncols)
    ELSE GreedyLoop(GreedyLoop(st, n - 1, g, goal, nrows, ncols),
                   n - 1, g, goal, nrows, ncols)

greedyBestFirst(g, start, goal, nrows, ncols) ==
    GreedyLoop([openSet |-> enqueue(<<>>, start, heuristic(start, goal)),
                cameFrom |-> EmptyMap,
                visited |-> {},
                nodesExplored |-> 0],
               LoopBits, g, goal, nrows, ncols)

(***************************************************************************)
(* jps: gScore and fScore are in units of 1/Scale.                         *)
(***************************************************************************)
hasForcedNeighbor(node, dir, g, nrows, ncols) ==
    IF dir[1] # 0
    THEN LET left == Col(node) - 1
             right == Col(node) + 1
             ahead == Row(node) + dir[1]
         IN \/ /\ left >= 0 /\ <<Row(node), left>> \in g
               /\ ahead >= 0 /\ ahead < nrows /\ <<ahead, left>> \notin g
            \/ /\ right < ncols /\ <<Row(node), right>> \in g
               /\ ahead >= 0 /\ ahead < nrows /\ <<ahead, right>> \notin g
    ELSE LET up == Row(node) - 1
             down == Row(node) + 1
             ahead == Col(node) + dir[2]
         IN \/ /\ up >= 0 /\ <<up, Col(node)>> \in g
               /\ ahead >= 0 /\ ahead < ncols /\ <<up, ahead>> \notin g
            \/ /\ down < nrows /\ <<down, Col(node)>> \in g
               /\ ahead >= 0 /\ ahead < ncols /\ <<down, ahead>> \notin g

\* The recursion guard of jump.
MaxJumpDepth == 100

\* A jump that never scans on: it returns the next cell when it is free.
JumpOneStep(current, dir, g, nrows, ncols, goal, depth) ==
    LET next == <<Row(current) + dir[1], Col(current) + dir[2]>>
    IN IF ~InBounds(next, nrows, ncols) \/ next \in g THEN Null ELSE next

\* A jump whose depth guard fires on the first recursive call.
RECURSIVE JumpGuardFiresEarly(_, _, _, _, _, _, _)
JumpGuardFiresEarly(current, dir, g, nrows, ncols, goal, depth) ==
    IF depth > 0 THEN Null
    ELSE LET next == <<Row(current) + dir[1], Col(current) + dir[2]>>
         IN IF ~InBounds(next, nrows, ncols) \/ next \in g THEN Null
            ELSE IF next = goal THEN next
            ELSE IF dir[1] # 0 /\ dir[2] # 0
                 THEN IF \/ JumpGuardFiresEarly(next, <<dir[1], 0>>, g, nrows, ncols, goal, depth + 1) # Null
                         \/ JumpGuardFiresEarly(next, <<0, dir[2]>>, g, nrows, ncols, goal, depth + 1) # Null
                      THEN next
                      ELSE JumpGuardFiresEarly(next, dir, g, nrows, ncols, goal, depth + 1)
                 ELSE IF hasForcedNeighbor(next, dir, g, nrows, ncols) THEN next
                      ELSE JumpGuardFiresEarly(next, dir, g, nrows, ncols, goal, depth + 1)

\* A scan that runs on over obstacle cells until the goal or the border.
RECURSIVE JumpOverObstacles(_, _, _, _, _, _, _)
JumpOverObstacles(current, dir, g, nrows, ncols, goal, depth) ==
    LET next == <<Row(current) + dir[1], Col(current) + dir[2]>>
    IN IF ~InBounds(next, nrows, ncols) THEN Null
       ELSE IF next = goal THEN next
       ELSE JumpOverObstacles(next, dir, g, nrows, ncols, goal, depth + 1)

\* jump returns a position, or Null for the source's null.
RECURSIVE jump(_, _, _, _, _, _, _)
jump(current, dir, g, nrows, ncols, goal, depth) ==
    IF depth > MaxJumpDepth THEN Null
    ELSE LET next == <<Row(current) + dir[1], Col(current) + dir[2]>>
         IN IF ~InBounds(next, nrows, ncols) \/ next \in g THEN Null
            ELSE IF next = goal THEN next
            ELSE IF dir[1] # 0 /\ dir[2] # 0
                 THEN IF \/ jump(next, <<dir[1], 0>>, g, nrows, ncols, goal, depth + 1) # Null
                         \/ jump(next, <<0, dir[2]>>, g, nrows, ncols, goal, depth + 1) # Null
                      THEN next
                      ELSE jump(next, dir, g, nrows, ncols, goal, depth + 1)
                 ELSE IF hasForcedNeighbor(next, dir, g, nrows, ncols)
                      THEN next
                      ELSE jump(next, dir, g, nrows, ncols, goal, depth + 1)

identifySuccessors(node, g, nrows, ncols, goal) ==
    LET directions == Directions4 \o Diagonals
        jumped == [k \in 1 .. Len(directions) |->
                      jump(node, directions[k], g, nrows, ncols, goal, 0)]
    IN SelectSeq(jumped, LAMBDA jp : jp # Null)

RECURSIVE JpsRelax(_, _, _, _, _)
JpsRelax(st, current, jumpPoints, k, goal) ==
    IF k > Len(jumpPoints) THEN st
    ELSE LET jp == jumpPoints[k]
             tentativeG == st.gScore[current] + distance(current, jp)
         IN IF jp \in st.visited
            THEN JpsRelax(st, current, jumpPoints, k + 1, goal)
            ELSE IF jp \notin DOMAIN st.gScore \/ tentativeG < st.gScore[jp]
                 THEN JpsRelax(
                        [st EXCEPT
                           !.cameFrom = MapSet(@, jp, current),
                           !.gScore = MapSet(@, jp, tentativeG),
                           !.openSet = enqueue(@, jp, tentativeG + Scale * heuristic(jp, goal))],
                        current, jumpPoints, k + 1, goal)
                 ELSE JpsRelax(st, current, jumpPoints, k + 1, goal)

JpsStep(st, g, goal, nrows, ncols) ==
    IF isEmpty(st.openSet) THEN Null
    ELSE LET current == Front(st.openSet)
             popped == [st EXCEPT !.openSet = Tail(@)]
             closed == [popped EXCEPT !.visited = @ \cup {current},
                                      !.nodesExplored = @ + 1]
         IN IF current \in st.visited
            THEN popped
            ELSE IF current = goal
                 THEN LET path == reconstructPath(st.cameFrom, current)
                      IN GridResult(path, closed.nodesExplored, calculatePathDistance(path))
                 ELSE JpsRelax(closed, current,
                                 identifySuccessors(current, g, nrows, ncols, goal), 1, goal)

RECURSIVE JpsLoop(_, _, _, _, _, _)
JpsLoop(st, n, g, goal, nrows, ncols) ==
    IF ~Searching(st) THEN st
    ELSE IF n = 0 THEN JpsStep(st, g, goal, nrows, ncols)
    ELSE JpsLoop(JpsLoop(st, n - 1, g, goal, nrows, ncols),
                n - 1, g, goal, nrows, ncols)

jps(g, start, goal, nrows, ncols) ==
    JpsLoop([openSet |-> enqueue(<<>>, start, Scale * heuristic(start, goal)),
             cameFrom |-> EmptyMap,
             gScore |-> MapSet(EmptyMap, start, 0),
             visited |-> {},
             nodesExplored |-> 0],
            LoopBits, g, goal, nrows, ncols)

(***************************************************************************)
(* thetaStar                                                               *)
(***************************************************************************)
\* The cells Bresenham's loop visits from <<y0, x0>> to <<y1, x1>>, in order;
\* err is the running error term.  lineOfSight and hasLineOfSight share it.
RECURSIVE BresenhamFrom(_, _, _, _, _, _, _, _, _)
BresenhamFrom(x0, y0, x1, y1, dx, dy, sx, sy, err) ==
    IF x0 = x1 /\ y0 = y1 THEN << <<y0, x0>> >>
    ELSE LET e2 == 2 * err
             stepX == e2 > -dy
             stepY == e2 < dx
         IN << <<y0, x0>> >> \o
            BresenhamFrom(IF stepX THEN x0 + sx ELSE x0,
                          IF stepY THEN y0 + sy ELSE y0,
                          x1, y1, dx, dy, sx, sy,
                          err - (IF stepX THEN dy ELSE 0) + (IF stepY THEN dx ELSE 0))
Bresenham(a, b) ==
    LET dx == Abs(Col(b) - Col(a))
        dy == Abs(Row(b) - Row(a))
    IN BresenhamFrom(Col(a), Row(a), Col(b), Row(b), dx, dy,
                     IF Col(a) < Col(b) THEN 1 ELSE -1,
                     IF Row(a) < Row(b) THEN 1 ELSE -1,
                     dx - dy)

\* lineOfSight(a, b, grid): no cell of the line is an obstacle.
lineOfSight(a, b, g) ==
    LET line == Bresenham(a, b)
    IN \A k \in 1 .. Len(line) : line[k] \notin g

\* One neighbour relaxed against the node parent ("path 2") or current ("path 1").
ThetaUpdate(st, neighbor, from, goal) ==
    LET tentativeG == st.gScore[from] + distance(from, neighbor)
    IN IF neighbor \notin DOMAIN st.gScore \/ tentativeG < st.gScore[neighbor]
       THEN [st EXCEPT
               !.cameFrom = MapSet(@, neighbor, from),
               !.gScore = MapSet(@, neighbor, tentativeG),
               !.openSet = enqueue(@, neighbor, tentativeG + Scale * heuristic(neighbor, goal))]
       ELSE st

\* A relaxation against current's predecessor without the visibility test.
ThetaParentUnseen(st, current, neighbor, g) ==
    IF current \in DOMAIN st.cameFrom THEN st.cameFrom[current] ELSE current

\* The node a neighbour is relaxed against: current's recorded predecessor when
\* it exists and sees the neighbour, current otherwise.
ThetaParent(st, current, neighbor, g) ==
    IF current \in DOMAIN st.cameFrom /\ lineOfSight(st.cameFrom[current], neighbor, g)
    THEN st.cameFrom[current]
    ELSE current

RECURSIVE ThetaRelax(_, _, _, _, _, _)
ThetaRelax(st, current, neighbors, k, goal, g) ==
    IF k > Len(neighbors) THEN st
    ELSE LET neighbor == neighbors[k]
         IN IF neighbor \in st.visited
            THEN ThetaRelax(st, current, neighbors, k + 1, goal, g)
            ELSE ThetaRelax(
                   ThetaUpdate(st, neighbor, ThetaParent(st, current, neighbor, g), goal),
                   current, neighbors, k + 1, goal, g)

ThetaStep(st, g, goal, nrows, ncols) ==
    IF isEmpty(st.openSet) THEN Null
    ELSE LET current == Front(st.openSet)
             popped == [st EXCEPT !.openSet = Tail(@)]
             closed == [popped EXCEPT !.visited = @ \cup {current},
                                      !.nodesExplored = @ + 1]
         IN IF current \in st.visited
            THEN popped
            ELSE IF current = goal
                 THEN LET path == reconstructPath(st.cameFrom, current)
                      IN GridResult(path, closed.nodesExplored, calculatePathDistance(path))
                 ELSE ThetaRelax(closed, current,
                                   getNeighbors(current, g, nrows, ncols, TRUE), 1, goal, g)

RECURSIVE ThetaLoop(_, _, _, _, _, _)
ThetaLoop(st, n, g, goal, nrows, ncols) ==
    IF ~Searching(st) THEN st
    ELSE IF n = 0 THEN ThetaStep(st, g, goal, nrows, ncols)
    ELSE ThetaLoop(ThetaLoop(st, n - 1, g, goal, nrows, ncols),
                  n - 1, g, goal, nrows, ncols)

thetaStar(g, start, goal, nrows, ncols) ==
    ThetaLoop([openSet |-> enqueue(<<>>, start, Scale * heuristic(start, goal)),
               cameFrom |-> EmptyMap,
               gScore |-> MapSet(EmptyMap, start, 0),
               visited |-> {},
               nodesExplored |-> 0],
              LoopBits, g, goal, nrows, ncols)

(***************************************************************************)
(* rrt and its helpers.  A tree node is [position, parent], parent the     *)
(* index in tree of the parent node and 0 for the root's null.             *)
(***************************************************************************)
\* a * sqrt(n) <= b, for integers a, b and n >= 0.
LeqRoot(a, b, n) ==
    IF a <= 0 THEN b >= 0 \/ a * a * n >= b * b
    ELSE b >= 0 /\ a * a * n <= b * b

\* Math.round(from + delta * Math.min(stepSize / Math.sqrt(distSq), 1.0)):
\* Math.round(x) is the integer m with m - 1/2 <= x < m + 1/2.
RoundToward(from, delta, stepSize, distSq) ==
    IF stepSize * stepSize >= distSq THEN from + delta
    ELSE from + (CHOOSE m \in -stepSize .. stepSize :
                    /\ LeqRoot(2 * m - 1, 2 * delta * stepSize, distSq)
                    /\ ~LeqRoot(2 * m + 1, 2 * delta * stepSize, distSq))

extendToward(from, to, stepSize, nrows, ncols) ==
    IF DistSq(from, to) = 0 THEN Null
    ELSE LET newRow == RoundToward(Row(from), Row(to) - Row(from), stepSize, DistSq(from, to))
             newCol == RoundToward(Col(from), Col(to) - Col(from), stepSize, DistSq(from, to))
         IN IF newRow < 0 \/ newRow >= nrows \/ newCol < 0 \/ newCol >= ncols
            THEN Null
            ELSE <<newRow, newCol>>

\* Math.round(from + (to - from) * (i / steps)), with t = 0 when steps = 0.
Lerp(from, to, i, steps) ==
    IF steps = 0 THEN from
    ELSE from + ((2 * (to - from) * i + steps) \div (2 * steps))
ChebyshevSteps(from, to) ==
    Max2(Abs(Row(to) - Row(from)), Abs(Col(to) - Col(from)))
\* The cell sampled at step i of the segment from -> to.
SampleCell(from, to, i) ==
    <<Lerp(Row(from), Row(to), i, ChebyshevSteps(from, to)),
      Lerp(Col(from), Col(to), i, ChebyshevSteps(from, to))>>

\* A segment test that finds every segment clear.
PathNeverCrosses(from, to, g) == FALSE

pathCrossesObstacle(from, to, g) ==
    \E i \in 0 .. ChebyshevSteps(from, to) : SampleCell(from, to, i) \in g

\* The first tree node at the least distance from randomPoint (its index).
NearestNode(t, randomPoint) ==
    CHOOSE n \in 1 .. Len(t) :
        /\ \A m \in 1 .. Len(t) :
              DistSq(t[n].position, randomPoint) <= DistSq(t[m].position, randomPoint)
        /\ \A m \in 1 .. n - 1 :
              DistSq(t[m].position, randomPoint) > DistSq(t[n].position, randomPoint)

\* reconstructRRTPath of the node [position, parent].
RECURSIVE reconstructRRTPath(_, _, _)
reconstructRRTPath(t, position, parent) ==
    IF parent = 0 THEN <<position>>
    ELSE reconstructRRTPath(t, t[parent].position, t[parent].parent) \o <<position>>

\* Appending a cell unless it repeats the last one ("avoid duplicates").
PushCell(path, cell) ==
    IF path = <<>> \/ path[Len(path)] # cell THEN Append(path, cell) ELSE path

RECURSIVE DensifySegment(_, _, _, _)
DensifySegment(path, from, to, j) ==
    IF j > ChebyshevSteps(from, to) THEN path
    ELSE DensifySegment(PushCell(path, SampleCell(from, to, j)), from, to, j + 1)

RECURSIVE SmoothRRTFrom(_, _, _)
SmoothRRTFrom(gridPath, rrtPath, i) ==
    IF i >= Len(rrtPath) THEN gridPath
    ELSE SmoothRRTFrom(DensifySegment(gridPath, rrtPath[i], rrtPath[i + 1], 0), rrtPath, i + 1)
smoothRRTPath(rrtPath) == SmoothRRTFrom(<<>>, rrtPath, 1)

\* rrt's stepSize, and its goalThreshold 1.5 as a fraction.
RrtStepSize == 2
RrtThresholdNum == 3
RrtThresholdDen == 2
WithinThreshold(a, b, num, den) == den * den * DistSq(a, b) < num * num

\* The candidate of one iteration: Null when it is rejected.
RrtCandidate(t, randomPoint, g, nrows, ncols) ==
    LET nearest == t[NearestNode(t, randomPoint)]
        newPos == extendToward(nearest.position, randomPoint, RrtStepSize, nrows, ncols)
    IN IF newPos = Null THEN Null
       ELSE IF newPos \in g THEN Null
       ELSE IF pathCrossesObstacle(nearest.position, newPos, g) THEN Null
       ELSE newPos

RrtResult(t, goal, explored) ==
    LET gridPath == smoothRRTPath(reconstructRRTPath(t, goal, Len(t)))
    IN [path |-> gridPath,
        metrics |-> [nodesExplored |-> explored, pathLength |-> Len(gridPath),
                     pathCost |-> calculatePathDistance(gridPath)],
        tree |-> t]

(***************************************************************************)
(* The navmesh: waypoints [id, row, col] in creation order (waypoints[k+1]  *)
(* has id k) and edges [from, to, cost] between waypoint ids.               *)
(***************************************************************************)
WaypointPos(w) == <<w.row, w.col>>

\* A hasLineOfSight that never looks at the grid.
SeeThroughObstacles(from, to, g, nrows, ncols) == TRUE

\* hasLineOfSight(from, to, grid): no in-grid cell of the line is an obstacle.
hasLineOfSight(from, to, g, nrows, ncols) ==
    LET line == Bresenham(from, to)
    IN \A k \in 1 .. Len(line) : InBounds(line[k], nrows, ncols) => line[k] \notin g

CornerOffsets == << <<-1, -1>>, <<-1, 0>>, <<-1, 1>>, <<0, -1>>, <<0, 1>>,
                    <<1, -1>>, <<1, 0>>, <<1, 1>> >>

\* A push that does not look for a waypoint already placed on the cell.
PushWaypointAgain(waypoints, p) ==
    Append(waypoints, [id |-> Len(waypoints), row |-> Row(p), col |-> Col(p)])

\* waypoints.push({id: waypoints.length, ...}) unless a waypoint is there already.
PushWaypoint(waypoints, p) ==
    IF \E k \in 1 .. Len(waypoints) : WaypointPos(waypoints[k]) = p
    THEN waypoints
    ELSE Append(waypoints, [id |-> Len(waypoints), row |-> Row(p), col |-> Col(p)])

\* Step 1: the obstacle cells in row-major order (obstacles is their sequence),
\* and for the k-th of them its corners from the c-th on.
RECURSIVE CornerWaypoints(_, _, _, _, _, _, _)
CornerWaypoints(waypoints, obstacles, k, c, g, nrows, ncols) ==
    IF k > Len(obstacles) THEN waypoints
    ELSE IF c > Len(CornerOffsets)
         THEN CornerWaypoints(waypoints, obstacles, k + 1, 1, g, nrows, ncols)
         ELSE LET corner == <<Row(obstacles[k]) + CornerOffsets[c][1],
                              Col(obstacles[k]) + CornerOffsets[c][2]>>
              IN CornerWaypoints(
                   IF InBounds(corner, nrows, ncols) /\ corner \notin g
                   THEN PushWaypoint(waypoints, corner)
                   ELSE waypoints,
                   obstacles, k, c + 1, g, nrows, ncols)

\* The cells of the grid in row-major order.
RowMajor(nrows, ncols) ==
    [k \in 1 .. nrows * ncols |-> <<(k - 1) \div ncols, (k - 1) % ncols>>]

\* Step 2: the open-area lattice, every spacing cells from row 2, column 2.
NavSpacing == 5
RECURSIVE OpenAreaWaypoints(_, _, _, _, _, _)
OpenAreaWaypoints(waypoints, row, col, g, nrows, ncols) ==
    IF row >= nrows THEN waypoints
    ELSE IF col >= ncols
         THEN OpenAreaWaypoints(waypoints, row + NavSpacing, 2, g, nrows, ncols)
         ELSE OpenAreaWaypoints(
                IF <<row, col>> \notin g THEN PushWaypoint(waypoints, <<row, col>>)
                ELSE waypoints,
                row, col + NavSpacing, g, nrows, ncols)

\* Step 3: the pairs i < j (ids), skipped when farther apart than 15.
MaxEdgeDistance == 15
RECURSIVE ConnectWaypoints(_, _, _, _, _, _, _)
ConnectWaypoints(edges, waypoints, i, j, g, nrows, ncols) ==
    IF i >= Len(waypoints) THEN edges
    ELSE IF j >= Len(waypoints)
         THEN ConnectWaypoints(edges, waypoints, i + 1, i + 2, g, nrows, ncols)
         ELSE LET w1 == WaypointPos(waypoints[i + 1])
                  w2 == WaypointPos(waypoints[j + 1])
              IN ConnectWaypoints(
                   IF DistSq(w1, w2) <= MaxEdgeDistance * MaxEdgeDistance
                      /\ hasLineOfSight(w1, w2, g, nrows, ncols)
                   THEN Append(edges, [from |-> i, to |-> j, cost |-> distance(w1, w2)])
                   ELSE edges,
                   waypoints, i, j + 1, g, nrows, ncols)

generateNavMesh(g, nrows, ncols) ==
    LET obstacles == SelectSeq(RowMajor(nrows, ncols), LAMBDA p : p \in g)
        waypoints == OpenAreaWaypoints(
                       CornerWaypoints(<<>>, obstacles, 1, 1, g, nrows, ncols),
                       2, 2, g, nrows, ncols)
    IN [waypoints |-> waypoints,
        edges |-> ConnectWaypoints(<<>>, waypoints, 0, 1, g, nrows, ncols),
        type |-> "waypoint-navmesh"]

\* A resolution that takes the first waypoint the point sees, however far.
FirstVisibleWaypoint(waypoints, point, g, nrows, ncols) ==
    LET visible == {k \in 1 .. Len(waypoints) :
                       hasLineOfSight(point, WaypointPos(waypoints[k]), g, nrows, ncols)}
    IN IF visible = {} THEN Null
       ELSE waypoints[CHOOSE k \in visible : \A m \in visible : k <= m]

\* The first waypoint at the least distance among those point sees; Null if none.
findNearestWaypoint(waypoints, point, g, nrows, ncols) ==
    LET visible == {k \in 1 .. Len(waypoints) :
                       hasLineOfSight(point, WaypointPos(waypoints[k]), g, nrows, ncols)}
        dist(k) == DistSq(point, WaypointPos(waypoints[k]))
    IN IF visible = {} THEN Null
       ELSE waypoints[CHOOSE k \in visible :
                         \A m \in visible : /\ dist(k) <= dist(m)
                                            /\ m < k => dist(m) > dist(k)]

heuristicWaypoint(wp1, wp2) == distance(WaypointPos(wp1), WaypointPos(wp2))

\* The path of waypoints, as positions.
RECURSIVE reconstructWaypointPath(_, _, _)
reconstructWaypointPath(cameFrom, currentId, waypoints) ==
    IF currentId \in DOMAIN cameFrom
    THEN reconstructWaypointPath(cameFrom, cameFrom[currentId], waypoints)
            \o << WaypointPos(waypoints[currentId + 1]) >>
    ELSE << WaypointPos(waypoints[currentId + 1]) >>

RECURSIVE SmoothNavMeshFrom(_, _, _)
SmoothNavMeshFrom(smoothPath, waypointPath, i) ==
    IF i >= Len(waypointPath) THEN smoothPath
    ELSE SmoothNavMeshFrom(
           DensifySegment(smoothPath, waypointPath[i], waypointPath[i + 1], 0),
           waypointPath, i + 1)
\* smoothNavMeshPath: every segment rasterised, then "always include final point".
smoothNavMeshPath(waypointPath) ==
    PushCell(SmoothNavMeshFrom(<<>>, waypointPath, 1), waypointPath[Len(waypointPath)])

calculatePathDistanceNavMesh(path) == RoundTenths(PathDistanceFrom(path, 1))

\* The {id, cost} entries pushed for waypoint id, in the order of edges.
RECURSIVE AdjacencyOf(_, _, _)
AdjacencyOf(edges, k, id) ==
    IF k > Len(edges) THEN <<>>
    ELSE (IF edges[k].from = id THEN << [id |-> edges[k].to, cost |-> edges[k].cost] >>
          ELSE IF edges[k].to = id THEN << [id |-> edges[k].from, cost |-> edges[k].cost] >>
          ELSE <<>>) \o AdjacencyOf(edges, k + 1, id)
buildAdjacencyList(nm) ==
    [id \in 0 .. Len(nm.waypoints) - 1 |-> AdjacencyOf(nm.edges, 1, id)]

\* funnelAlgorithm: from currentIndex, the farthest index seen without a gap.
\* A funnel that takes the last waypoint at once, visible or not.
FarthestOfAll(waypointPath, currentIndex, farthest, i, g, nrows, ncols) ==
    Len(waypointPath)

RECURSIVE FarthestVisible(_, _, _, _, _, _, _)
FarthestVisible(waypointPath, currentIndex, farthest, i, g, nrows, ncols) ==
    IF i > Len(waypointPath) THEN farthest
    ELSE IF hasLineOfSight(waypointPath[currentIndex], waypointPath[i], g, nrows, ncols)
         THEN FarthestVisible(waypointPath, currentIndex, i, i + 1, g, nrows, ncols)
         ELSE farthest
\* A funnel whose loop stops one waypoint short of the end.
RECURSIVE FunnelStopsEarly(_, _, _, _, _, _)
FunnelStopsEarly(smoothPath, waypointPath, currentIndex, g, nrows, ncols) ==
    IF currentIndex >= Len(waypointPath) - 1 THEN smoothPath
    ELSE LET farthestVisible ==
                 FarthestVisible(waypointPath, currentIndex, currentIndex + 1,
                                 currentIndex + 2, g, nrows, ncols)
         IN FunnelStopsEarly(Append(smoothPath, waypointPath[farthestVisible]),
                             waypointPath, farthestVisible, g, nrows, ncols)

RECURSIVE FunnelFrom(_, _, _, _, _, _)
FunnelFrom(smoothPath, waypointPath, currentIndex, g, nrows, ncols) ==
    IF currentIndex >= Len(waypointPath) THEN smoothPath
    ELSE LET farthestVisible ==
                 FarthestVisible(waypointPath, currentIndex, currentIndex + 1,
                                 currentIndex + 2, g, nrows, ncols)
         IN FunnelFrom(Append(smoothPath, waypointPath[farthestVisible]),
                       waypointPath, farthestVisible, g, nrows, ncols)
funnelAlgorithm(waypointPath, g, nrows, ncols) ==
    IF Len(waypointPath) <= 2 THEN waypointPath
    ELSE FunnelFrom(<< waypointPath[1] >>, waypointPath, 1, g, nrows, ncols)

\* The result object of a navmesh search; pathCost is in tenths.
NavMeshResult(smoothPath, visitedNodes, explored, waypointPath) ==
    [path |-> smoothPath,
     exploredNodes |-> visitedNodes,
     metrics |-> [nodesExplored |-> explored, pathLength |-> Len(smoothPath),
                  pathCost |-> calculatePathDistanceNavMesh(smoothPath)],
     waypointPath |-> waypointPath]

buildNavMeshResult(cameFrom, goalId, nm, start, goal, g, nrows, ncols, explored, visitedNodes) ==
    LET waypointPath == <<start>> \o reconstructWaypointPath(cameFrom, goalId, nm.waypoints)
                            \o <<goal>>
        funnelPath == funnelAlgorithm(waypointPath, g, nrows, ncols)
    IN NavMeshResult(smoothNavMeshPath(funnelPath), visitedNodes, explored, waypointPath)

(***************************************************************************)
(* navmeshAStar, navmeshDijkstra, navmeshGreedy: searches over waypoint    *)
(* ids; the state is [openSet, cameFrom, gScore, visited, visitedNodes,     *)
(* nodesExplored].                                                         *)
(***************************************************************************)
NavSearchInit(startId, priority) ==
    [openSet |-> enqueue(<<>>, startId, priority),
     cameFrom |-> EmptyMap,
     gScore |-> MapSet(EmptyMap, startId, 0),
     visited |-> {},
     visitedNodes |-> <<>>,
     nodesExplored |-> 0]

\* visited.add(currentId); visitedNodes.push(waypoints[currentId]); nodesExplored++
NavClose(st, currentId, nm) ==
    [st EXCEPT !.visited = @ \cup {currentId},
               !.visitedNodes = Append(@, nm.waypoints[currentId + 1]),
               !.nodesExplored = @ + 1]

RECURSIVE NavAStarRelax(_, _, _, _, _, _)
NavAStarRelax(st, currentId, neighbors, k, nm, goalWaypoint) ==
    IF k > Len(neighbors) THEN st
    ELSE LET neighbor == neighbors[k]
             tentativeG == st.gScore[currentId] + neighbor.cost
         IN IF neighbor.id \in st.visited
            THEN NavAStarRelax(st, currentId, neighbors, k + 1, nm, goalWaypoint)
            ELSE IF neighbor.id \notin DOMAIN st.gScore \/ tentativeG < st.gScore[neighbor.id]
                 THEN NavAStarRelax(
                        [st EXCEPT
                           !.cameFrom = MapSet(@, neighbor.id, currentId),
                           !.gScore = MapSet(@, neighbor.id, tentativeG),
                           !.openSet = enqueue(@, neighbor.id,
                               tentativeG + heuristicWaypoint(nm.waypoints[neighbor.id + 1],
                                                              goalWaypoint))],
                        currentId, neighbors, k + 1, nm, goalWaypoint)
                 ELSE NavAStarRelax(st, currentId, neighbors, k + 1, nm, goalWaypoint)

NavAStarStep(st, nm, adjacency, start, goal, goalWaypoint, g, nrows, ncols) ==
    IF isEmpty(st.openSet) THEN Null
    ELSE LET currentId == Front(st.openSet)
             popped == [st EXCEPT !.openSet = Tail(@)]
             closed == NavClose(popped, currentId, nm)
         IN IF currentId \in st.visited
            THEN popped
            ELSE IF currentId = goalWaypoint.id
                 THEN LET waypointPath ==
                              <<start>> \o reconstructWaypointPath(st.cameFrom, currentId,
                                                                   nm.waypoints)
                                  \o <<goal>>
                      IN NavMeshResult(smoothNavMeshPath(waypointPath), closed.visitedNodes,
                                       closed.nodesExplored, waypointPath)
                 ELSE NavAStarRelax(closed, currentId, adjacency[currentId], 1, nm,
                                      goalWaypoint)

RECURSIVE NavAStarLoop(_, _, _, _, _, _, _, _, _, _)
NavAStarLoop(st, n, nm, adjacency, start, goal, goalWaypoint, g, nrows, ncols) ==
    IF ~Searching(st) THEN st
    ELSE IF n = 0 THEN 
         NavAStarStep(st, nm, adjacency, start, goal, goalWaypoint, g, nrows, ncols)
    ELSE NavAStarLoop(NavAStarLoop(st, n - 1, nm, adjacency, start, goal, goalWaypoint, g, nrows, ncols),
                     n - 1, nm, adjacency, start, goal, goalWaypoint, g, nrows, ncols)

navmeshAStar(nm, start, goal, g, nrows, ncols) ==
    LET startWaypoint == findNearestWaypoint(nm.waypoints, start, g, nrows, ncols)
        goalWaypoint == findNearestWaypoint(nm.waypoints, goal, g, nrows, ncols)
    IN IF startWaypoint = Null \/ goalWaypoint = Null THEN Null
       ELSE NavAStarLoop(
              NavSearchInit(startWaypoint.id, heuristicWaypoint(startWaypoint, goalWaypoint)),
              LoopBits,
              nm, buildAdjacencyList(nm), start, goal, goalWaypoint, g, nrows, ncols)

RECURSIVE NavDijkstraRelax(_, _, _, _)
NavDijkstraRelax(st, currentId, neighbors, k) ==
    IF k > Len(neighbors) THEN st
    ELSE LET neighbor == neighbors[k]
             tentativeG == st.gScore[currentId] + neighbor.cost
         IN IF neighbor.id \in st.visited
            THEN NavDijkstraRelax(st, currentId, neighbors, k + 1)
            ELSE IF neighbor.id \notin DOMAIN st.gScore \/ tentativeG < st.gScore[neighbor.id]
                 THEN NavDijkstraRelax(
                        [st EXCEPT
                           !.cameFrom = MapSet(@, neighbor.id, currentId),
                           !.gScore = MapSet(@, neighbor.id, tentativeG),
                           !.openSet = enqueue(@, neighbor.id, tentativeG)],
                        currentId, neighbors, k + 1)
                 ELSE NavDijkstraRelax(st, currentId, neighbors, k + 1)

NavDijkstraStep(st, nm, adjacency, start, goal, goalId, g, nrows, ncols) ==
    IF isEmpty(st.openSet) THEN Null
    ELSE LET currentId == Front(st.openSet)
             popped == [st EXCEPT !.openSet = Tail(@)]
             closed == NavClose(popped, currentId, nm)
         IN IF currentId \in st.visited
            THEN popped
            ELSE IF currentId = goalId
                 THEN buildNavMeshResult(st.cameFrom, currentId, nm, start, goal, g, nrows,
                                         ncols, closed.nodesExplored, closed.visitedNodes)
                 ELSE NavDijkstraRelax(closed, currentId, adjacency[currentId], 1)

RECURSIVE NavDijkstraLoop(_, _, _, _, _, _, _, _, _, _)
NavDijkstraLoop(st, n, nm, adjacency, start, goal, goalId, g, nrows, ncols) ==
    IF ~Searching(st) THEN st
    ELSE IF n = 0 THEN 
         NavDijkstraStep(st, nm, adjacency, start, goal, goalId, g, nrows, ncols)
    ELSE NavDijkstraLoop(NavDijkstraLoop(st, n - 1, nm, adjacency, start, goal, goalId, g, nrows, ncols),
                        n - 1, nm, adjacency, start, goal, goalId, g, nrows, ncols)

navmeshDijkstra(nm, start, goal, g, nrows, ncols) ==
    LET startWaypoint == findNearestWaypoint(nm.waypoints, start, g, nrows, ncols)
        goalWaypoint == findNearestWaypoint(nm.waypoints, goal, g, nrows, ncols)
    IN IF startWaypoint = Null \/ goalWaypoint = Null THEN Null
       ELSE NavDijkstraLoop(NavSearchInit(startWaypoint.id, 0), LoopBits, nm, buildAdjacencyList(nm),
                            start, goal, goalWaypoint.id, g, nrows, ncols)

\* navmeshGreedy keeps no gScore: a neighbour is queued once, when it first gets
\* a predecessor.
RECURSIVE NavGreedyRelax(_, _, _, _, _, _)
NavGreedyRelax(st, currentId, neighbors, k, nm, goalWaypoint) ==
    IF k > Len(neighbors) THEN st
    ELSE LET neighbor == neighbors[k]
         IN IF neighbor.id \in st.visited
            THEN NavGreedyRelax(st, currentId, neighbors, k + 1, nm, goalWaypoint)
            ELSE IF neighbor.id \notin DOMAIN st.cameFrom
                 THEN NavGreedyRelax(
                        [st EXCEPT
                           !.cameFrom = MapSet(@, neighbor.id, currentId),
                           !.openSet = enqueue(@, neighbor.id,
                               heuristicWaypoint(nm.waypoints[neighbor.id + 1], goalWaypoint))],
                        currentId, neighbors, k + 1, nm, goalWaypoint)
                 ELSE NavGreedyRelax(st, currentId, neighbors, k + 1, nm, goalWaypoint)

NavGreedyStep(st, nm, adjacency, start, goal, goalWaypoint, g, nrows, ncols) ==
    IF isEmpty(st.openSet) THEN Null
    ELSE LET currentId == Front(st.openSet)
             popped == [st EXCEPT !.openSet = Tail(@)]
             closed == NavClose(popped, currentId, nm)
         IN IF currentId \in st.visited
            THEN popped
            ELSE IF currentId = goalWaypoint.id
                 THEN buildNavMeshResult(st.cameFrom, currentId, nm, start, goal, g, nrows,
                                         ncols, closed.nodesExplored, closed.visitedNodes)
                 ELSE NavGreedyRelax(closed, currentId, adjacency[currentId], 1, nm,
                                       goalWaypoint)

RECURSIVE NavGreedyLoop(_, _, _, _, _, _, _, _, _, _)
NavGreedyLoop(st, n, nm, adjacency, start, goal, goalWaypoint, g, nrows, ncols) ==
    IF ~Searching(st) THEN st
    ELSE IF n = 0 THEN 
         NavGreedyStep(st, nm, adjacency, start, goal, goalWaypoint, g, nrows, ncols)
    ELSE NavGreedyLoop(NavGreedyLoop(st, n - 1, nm, adjacency, start, goal, goalWaypoint, g, nrows, ncols),
                      n - 1, nm, adjacency, start, goal, goalWaypoint, g, nrows, ncols)

navmeshGreedy(nm, start, goal, g, nrows, ncols) ==
    LET startWaypoint == findNearestWaypoint(nm.waypoints, start, g, nrows, ncols)
        goalWaypoint == findNearestWaypoint(nm.waypoints, goal, g, nrows, ncols)
    IN IF startWaypoint = Null \/ goalWaypoint = Null THEN Null
       ELSE NavGreedyLoop(
              NavSearchInit(startWaypoint.id, heuristicWaypoint(startWaypoint, goalWaypoint)),
              LoopBits,
              nm, buildAdjacencyList(nm), start, goal, goalWaypoint, g, nrows, ncols)

(***************************************************************************)
(* navmeshRRT and its helpers.                                             *)
(***************************************************************************)
distance2D(a, b) == Sqrt(DistSq(a, b))

pathCrossesObstacleNavMesh(from, to, g, nrows, ncols) ==
    \E i \in 0 .. ChebyshevSteps(from, to) :
        \/ ~InBounds(SampleCell(from, to, i), nrows, ncols)
        \/ SampleCell(from, to, i) \in g

\* reconstructRRTPathNavMesh of the node [position, parent].
RECURSIVE reconstructRRTPathNavMesh(_, _, _)
reconstructRRTPathNavMesh(t, position, parent) ==
    IF parent = 0 THEN <<position>>
    ELSE reconstructRRTPathNavMesh(t, t[parent].position, t[parent].parent) \o <<position>>

\* navmeshRRT's stepSize and goalThreshold (3.0).
NavRrtStepSize == 3
NavRrtThreshold == 3

\* The points an iteration can draw: the goal, or the position of a waypoint.
NavRrtSamples(nm, goal) ==
    {goal} \cup {WaypointPos(nm.waypoints[k]) : k \in 1 .. Len(nm.waypoints)}

\* The candidate of one iteration: Null when the iteration is skipped.
NavRrtCandidate(t, randomPoint, g, nrows, ncols) ==
    LET nearest == t[NearestNode(t, randomPoint)].position
        distSq == DistSq(nearest, randomPoint)
        newPos == <<RoundToward(Row(nearest), Row(randomPoint) - Row(nearest),
                                NavRrtStepSize, distSq),
                    RoundToward(Col(nearest), Col(randomPoint) - Col(nearest),
                                NavRrtStepSize, distSq)>>
    IN IF distance2D(nearest, randomPoint) = 0 THEN Null
       ELSE IF ~InBounds(newPos, nrows, ncols) THEN Null
       ELSE IF newPos \in g THEN Null
       ELSE IF pathCrossesObstacleNavMesh(nearest, newPos, g, nrows, ncols) THEN Null
       ELSE newPos

NavRrtResult(t, goal, explored, explorednodes) ==
    LET smoothPath == smoothNavMeshPath(reconstructRRTPathNavMesh(t, goal, Len(t)))
    IN [path |-> smoothPath,
        exploredNodes |-> explorednodes,
        metrics |-> [nodesExplored |-> explored, pathLength |-> Len(smoothPath),
                     pathCost |-> calculatePathDistanceNavMesh(smoothPath)]]

(***************************************************************************)
(* The state machine.  rows, cols, grid, mapType and navmesh are the       *)
(* caller's fields and agent its agent; a query is one call of             *)
(* AlgorithmRunner.runGrid or runNavmesh, as startSimulation makes it.     *)
(* The searches return within the call.  The sampling planners take one    *)
(* action per loop iteration, the random sample being the action's input;  *)
(* localNavmesh, tree, iter, nodesExplored and exploredNodes are the       *)
(* locals of the running call, and pc tells which loop, if any, is         *)
(* running.  result is what the last call returned: None before any call,  *)
(* Thrown when it raised instead.                                          *)
(***************************************************************************)
\* No component is exercised on its own.
PartsIdle ==
    /\ search = Null
    /\ queue = <<>>
    /\ enqueued = <<>>
    /\ dequeued = <<>>
    /\ funnelInput = <<>>
    /\ funnelOutput = None

AlgorithmIds == {"astar", "dijkstra", "greedy", "rrt", "jps", "theta", "other"}

\* Every grid of at most Rows x Cols cells and MaxObstacles obstacles with free
\* start and goal cells, and the empty square grid with start and goal at the
\* two ends of its first row.
Instances ==
    {inst \in [rows : 1 .. Rows, cols : 1 .. Cols,
               grid : {g \in SUBSET Cells(Rows, Cols) : Cardinality(g) <= MaxObstacles},
               start : Cells(Rows, Cols), goal : Cells(Rows, Cols)] :
        /\ inst.grid \subseteq Cells(inst.rows, inst.cols)
        /\ inst.start \in Cells(inst.rows, inst.cols) \ inst.grid
        /\ inst.goal \in Cells(inst.rows, inst.cols) \ inst.grid}
    \cup {[rows |-> ScenarioSize, cols |-> ScenarioSize, grid |-> {},
           start |-> <<0, 0>>, goal |-> <<0, ScenarioSize - 1>>]}

Init ==
    /\ \E inst \in Instances :
          /\ rows = inst.rows
          /\ cols = inst.cols
          /\ grid = inst.grid
          /\ \E a \in AlgorithmIds :
                agent = [algorithm |-> a, start |-> inst.start, goal |-> inst.goal]
    /\ mapType \in {"grid", "navmesh"}
    /\ navmesh = Null
    /\ result = None
    /\ pc = "idle"
    /\ localNavmesh = Null
    /\ tree = <<>>
    /\ iter = 0
    /\ nodesExplored = 0
    /\ exploredNodes = <<>>
    /\ PartsIdle

\* runGrid's switch for the searches that return within the call.
runGrid(algorithm, g, start, goal, nrows, ncols) ==
    CASE algorithm = "astar" -> astar(g, start, goal, nrows, ncols)
      [] algorithm = "dijkstra" -> dijkstra(g, start, goal, nrows, ncols)
      [] algorithm = "greedy" -> greedyBestFirst(g, start, goal, nrows, ncols)
      [] algorithm = "jps" -> jps(g, start, goal, nrows, ncols)
      [] algorithm = "theta" -> thetaStar(g, start, goal, nrows, ncols)
      [] OTHER -> Null

\* runNavmesh's switch for the searches that return within the call.
\* A runNavmesh whose 'jps' and 'theta' cases fall to the default.
RunNavmeshWithoutFallback(algorithm, nm, start, goal, g, nrows, ncols) ==
    CASE algorithm = "astar" -> navmeshAStar(nm, start, goal, g, nrows, ncols)
      [] algorithm = "dijkstra" -> navmeshDijkstra(nm, start, goal, g, nrows, ncols)
      [] algorithm = "greedy" -> navmeshGreedy(nm, start, goal, g, nrows, ncols)
      [] OTHER -> Null
runNavmesh(algorithm, nm, start, goal, g, nrows, ncols) ==
    CASE algorithm = "astar" -> navmeshAStar(nm, start, goal, g, nrows, ncols)
      [] algorithm = "dijkstra" -> navmeshDijkstra(nm, start, goal, g, nrows, ncols)
      [] algorithm = "greedy" -> navmeshGreedy(nm, start, goal, g, nrows, ncols)
      [] algorithm \in {"jps", "theta"} -> navmeshAStar(nm, start, goal, g, nrows, ncols)
      [] OTHER -> Null

\* The call is over: its locals are gone.
Return ==
    /\ pc' = "idle"
    /\ localNavmesh' = Null
    /\ tree' = <<>>
    /\ iter' = 0
    /\ nodesExplored' = 0
    /\ exploredNodes' = <<>>

\* startSimulation in grid mode: runGrid for the agent.  For 'rrt' the call
\* enters rrt's loop with the tree holding the root.
RunGrid ==
    /\ pc = "idle"
    /\ mapType = "grid"
    /\ IF agent.algorithm = "rrt"
       THEN /\ pc' = "rrt"
            /\ tree' = << [position |-> agent.start, parent |-> 0] >>
            /\ result' = None
            /\ UNCHANGED <<localNavmesh, iter, nodesExplored, exploredNodes>>
       ELSE /\ result' = runGrid(agent.algorithm, grid, agent.start, agent.goal, rows, cols)
            /\ Return
    /\ UNCHANGED <<rows, cols, grid, mapType, agent, navmesh, parts>>

\* One iteration of rrt's loop, randomPoint being the sample (the goal or any cell).
RrtIterate(randomPoint) ==
    /\ pc = "rrt"
    /\ iter < MaxIterations
    /\ LET newPos == RrtCandidate(tree, randomPoint, grid, rows, cols)
           newTree == Append(tree, [position |-> newPos,
                                    parent |-> NearestNode(tree, randomPoint)])
       IN IF newPos = Null
          THEN /\ iter' = iter + 1
               /\ UNCHANGED <<tree, nodesExplored, result, pc, localNavmesh, exploredNodes>>
          ELSE IF WithinThreshold(newPos, agent.goal, RrtThresholdNum, RrtThresholdDen)
               THEN /\ result' = RrtResult(newTree, agent.goal, nodesExplored + 1)
                    /\ Return
               ELSE /\ tree' = newTree
                    /\ nodesExplored' = nodesExplored + 1
                    /\ iter' = iter + 1
                    /\ UNCHANGED <<result, pc, localNavmesh, exploredNodes>>
    /\ UNCHANGED <<rows, cols, grid, mapType, agent, navmesh, parts>>

\* The loop ran maxIterations times: rrt returns null.
RrtExhausted ==
    /\ pc = "rrt"
    /\ iter >= MaxIterations
    /\ result' = Null
    /\ Return
    /\ UNCHANGED <<rows, cols, grid, mapType, agent, navmesh, parts>>

\* startSimulation in navmesh mode: runNavmesh for the agent, with the navmesh
\* built when the caller has none, and the navmesh it returns stored.  For 'rrt'
\* the call enters navmeshRRT's loop.
RunNavmesh ==
    /\ pc = "idle"
    /\ mapType = "navmesh"
    /\ LET nm == IF navmesh = Null THEN generateNavMesh(grid, rows, cols) ELSE navmesh
       IN IF agent.algorithm = "rrt"
          THEN /\ pc' = "navrrt"
               /\ localNavmesh' = nm
               /\ tree' = << [position |-> agent.start, parent |-> 0] >>
               /\ result' = None
               /\ UNCHANGED <<navmesh, iter, nodesExplored, exploredNodes>>
          ELSE /\ result' = runNavmesh(agent.algorithm, nm, agent.start, agent.goal,
                                       grid, rows, cols)
               /\ navmesh' = nm
               /\ Return
    /\ UNCHANGED <<rows, cols, grid, mapType, agent, parts>>

\* One iteration of navmeshRRT's loop, randomPoint being the sample.
NavRrtIterate(randomPoint) ==
    /\ pc = "navrrt"
    /\ iter < MaxIterations
    /\ LET newPos == NavRrtCandidate(tree, randomPoint, grid, rows, cols)
           newTree == Append(tree, [position |-> newPos,
                                    parent |-> NearestNode(tree, randomPoint)])
       IN IF newPos = Null
          THEN /\ iter' = iter + 1
               /\ UNCHANGED <<tree, nodesExplored, exploredNodes, result, pc, navmesh,
                              localNavmesh>>
          ELSE IF DistSq(newPos, agent.goal) < NavRrtThreshold * NavRrtThreshold
               THEN /\ result' = NavRrtResult(newTree, agent.goal, nodesExplored + 1,
                                              Append(exploredNodes, newPos))
                    /\ navmesh' = localNavmesh
                    /\ Return
               ELSE /\ tree' = newTree
                    /\ nodesExplored' = nodesExplored + 1
                    /\ exploredNodes' = Append(exploredNodes, newPos)
                    /\ iter' = iter + 1
                    /\ UNCHANGED <<result, pc, navmesh, localNavmesh>>
    /\ UNCHANGED <<rows, cols, grid, mapType, agent, parts>>

\* An iteration that draws a waypoint when the navmesh has none reads .row of
\* undefined: the call raises a TypeError and nothing is returned or stored.
NavRrtThrow ==
    /\ pc = "navrrt"
    /\ iter < MaxIterations
    /\ Len(localNavmesh.waypoints) = 0
    /\ result' = Thrown
    /\ Return
    /\ UNCHANGED <<rows, cols, grid, mapType, agent, navmesh, parts>>

\* The loop ran maxIterations times: navmeshRRT returns null.
NavRrtExhausted ==
    /\ pc = "navrrt"
    /\ iter >= MaxIterations
    /\ result' = Null
    /\ navmesh' = localNavmesh
    /\ Return
    /\ UNCHANGED <<rows, cols, grid, mapType, agent, parts>>

Next ==
    \/ RunGrid
    \/ \E randomPoint \in Cells(rows, cols) : RrtIterate(randomPoint)
    \/ RrtExhausted
    \/ RunNavmesh
    \/ /\ pc = "navrrt"
       /\ \E randomPoint \in NavRrtSamples(localNavmesh, agent.goal) :
             NavRrtIterate(randomPoint)
    \/ NavRrtThrow
    \/ NavRrtExhausted

Spec == Init /\ [][Next]_vars

(***************************************************************************)
(* The map type buttons, and the navmesh builder applied to grids of its    *)
(* own family.                                                             *)
(***************************************************************************)
\* setMapType(type): the navmesh is built from the current obstacles for
\* 'navmesh' and dropped for 'grid'.  No query result is at hand afterwards.
SetMapType(type) ==
    /\ pc = "idle"
    /\ mapType' = type
    /\ navmesh' = IF type = "navmesh" THEN generateNavMesh(grid, rows, cols) ELSE Null
    /\ result' = None
    /\ UNCHANGED <<rows, cols, grid, agent, pc, localNavmesh, tree, iter, nodesExplored,
                   exploredNodes, parts>>

Corridor ==
    [rows |-> CorridorRows, cols |-> CorridorCols, grid |-> {},
     start |-> <<0, 0>>, goal |-> <<0, CorridorCols - 1>>]

MeshInit ==
    /\ \E inst \in Instances \cup {Corridor} :
          /\ rows = inst.rows
          /\ cols = inst.cols
          /\ grid = inst.grid
          /\ agent = [algorithm |-> "astar", start |-> inst.start, goal |-> inst.goal]
    /\ mapType = "grid"
    /\ navmesh = Null
    /\ result = None
    /\ pc = "idle"
    /\ localNavmesh = Null
    /\ tree = <<>>
    /\ iter = 0
    /\ nodesExplored = 0
    /\ exploredNodes = <<>>
    /\ PartsIdle

MeshNext == \E type \in {"grid", "navmesh"} : SetMapType(type)

MeshSpec == MeshInit /\ [][MeshNext]_vars
(***************************************************************************)
(* funnelAlgorithm applied to waypoint paths of its own family.            *)
(***************************************************************************)
FunnelInit ==
    /\ rows = SmallRows
    /\ cols = SmallCols
    /\ grid \in {g \in SUBSET Cells(SmallRows, SmallCols) : Cardinality(g) <= MaxObstacles}
    /\ funnelInput \in UNION {[1 .. n -> Cells(SmallRows, SmallCols)] :
                                 n \in 1 .. MaxPathLength}
    /\ agent = [algorithm |-> "dijkstra", start |-> funnelInput[1],
                goal |-> funnelInput[Len(funnelInput)]]
    /\ mapType = "navmesh"
    /\ navmesh = Null
    /\ result = None
    /\ pc = "idle"
    /\ localNavmesh = Null
    /\ tree = <<>>
    /\ iter = 0
    /\ nodesExplored = 0
    /\ exploredNodes = <<>>
    /\ search = Null
    /\ queue = <<>>
    /\ enqueued = <<>>
    /\ dequeued = <<>>
    /\ funnelOutput = None

\* funnelAlgorithm(waypointPath, navmesh, grid) called and returned.
ApplyFunnel ==
    /\ funnelOutput = None
    /\ funnelOutput' = [path |-> funnelAlgorithm(funnelInput, grid, rows, cols)]
    /\ UNCHANGED <<rows, cols, grid, mapType, agent, navmesh, result, pc, localNavmesh,
                   tree, iter, nodesExplored, exploredNodes, search, queue, enqueued,
                   dequeued, funnelInput>>

FunnelSpec == FunnelInit /\ [][ApplyFunnel]_vars
(***************************************************************************)
(* PriorityQueue on its own: enqueue and dequeue in any order.             *)
(***************************************************************************)
\* What shift()?.element gives on an empty array.
Undefined == [undefined |-> TRUE]

QueueInit ==
    /\ rows = SmallRows
    /\ cols = SmallCols
    /\ grid = {}
    /\ agent = [algorithm |-> "astar", start |-> <<0, 0>>,
                goal |-> <<SmallRows - 1, SmallCols - 1>>]
    /\ mapType = "grid"
    /\ navmesh = Null
    /\ result = None
    /\ pc = "idle"
    /\ localNavmesh = Null
    /\ tree = <<>>
    /\ iter = 0
    /\ nodesExplored = 0
    /\ exploredNodes = <<>>
    /\ PartsIdle

\* enqueue(element, priority): the element is the ordinal of the call.
Enqueue(priority) ==
    /\ Len(enqueued) < MaxEnqueues
    /\ queue' = enqueue(queue, Len(enqueued) + 1, priority)
    /\ enqueued' = Append(enqueued, priority)
    /\ UNCHANGED <<rows, cols, grid, mapType, agent, navmesh, result, pc, localNavmesh,
                   tree, iter, nodesExplored, exploredNodes, search, dequeued,
                   funnelInput, funnelOutput>>

\* dequeue(): this.elements.shift()?.element.
Dequeue ==
    /\ Len(dequeued) < MaxDequeues
    /\ dequeued' = Append(dequeued, IF isEmpty(queue) THEN Undefined
                                    ELSE [element |-> Front(queue)])
    /\ queue' = IF isEmpty(queue) THEN queue ELSE Tail(queue)
    /\ UNCHANGED <<rows, cols, grid, mapType, agent, navmesh, result, pc, localNavmesh,
                   tree, iter, nodesExplored, exploredNodes, search, enqueued,
                   funnelInput, funnelOutput>>

QueueNext ==
    \/ \E priority \in 0 .. MaxPriority : Enqueue(priority)
    \/ Dequeue

QueueSpec == QueueInit /\ [][QueueNext]_vars
(***************************************************************************)
(* The eight queue-driven searches taken one dequeue at a time: search is  *)
(* the state of the running loop, and when the loop returns result is set  *)
(* and search keeps the state the last dequeue found.                      *)
(***************************************************************************)
\* The state a search enters its loop with, or Null when a navmesh search
\* returns before the loop for want of a start or goal waypoint.
SearchBegin(algorithm, type, nm, start, goal, g, nrows, ncols) ==
    IF type = "grid"
    THEN LET opened(priority) ==
                 [openSet |-> enqueue(<<>>, start, priority),
                  cameFrom |-> EmptyMap,
                  gScore |-> MapSet(EmptyMap, start, 0),
                  visited |-> {},
                  nodesExplored |-> 0]
         IN CASE algorithm = "astar" -> opened(heuristic(start, goal))
              [] algorithm = "dijkstra" -> opened(0)
              [] algorithm = "greedy" ->
                    [openSet |-> enqueue(<<>>, start, heuristic(start, goal)),
                     cameFrom |-> EmptyMap,
                     visited |-> {},
                     nodesExplored |-> 0]
              [] OTHER -> opened(Scale * heuristic(start, goal))
    ELSE LET startWaypoint == findNearestWaypoint(nm.waypoints, start, g, nrows, ncols)
             goalWaypoint == findNearestWaypoint(nm.waypoints, goal, g, nrows, ncols)
         IN IF startWaypoint = Null \/ goalWaypoint = Null THEN Null
            ELSE IF algorithm = "dijkstra" THEN NavSearchInit(startWaypoint.id, 0)
            ELSE NavSearchInit(startWaypoint.id,
                               heuristicWaypoint(startWaypoint, goalWaypoint))

\* One pass of the while loop of the search: the next loop state, or what the
\* search returns.
SearchStep(st, algorithm, type, nm, start, goal, g, nrows, ncols) ==
    IF type = "grid"
    THEN CASE algorithm = "astar" -> AStarStep(st, g, goal, nrows, ncols)
           [] algorithm = "dijkstra" -> DijkstraStep(st, g, goal, nrows, ncols)
           [] algorithm = "greedy" -> GreedyStep(st, g, goal, nrows, ncols)
           [] algorithm = "jps" -> JpsStep(st, g, goal, nrows, ncols)
           [] OTHER -> ThetaStep(st, g, goal, nrows, ncols)
    ELSE LET goalWaypoint == findNearestWaypoint(nm.waypoints, goal, g, nrows, ncols)
             adjacency == buildAdjacencyList(nm)
         IN CASE algorithm = "astar" ->
                    NavAStarStep(st, nm, adjacency, start, goal, goalWaypoint, g, nrows, ncols)
              [] algorithm = "dijkstra" ->
                    NavDijkstraStep(st, nm, adjacency, start, goal, goalWaypoint.id,
                                    g, nrows, ncols)
              [] OTHER ->
                    NavGreedyStep(st, nm, adjacency, start, goal, goalWaypoint, g, nrows, ncols)

\* A grid on which astar takes a cell from its queue a second time.
Reopening ==
    [rows |-> 4, cols |-> 4, grid |-> {<<0, 1>>, <<1, 0>>, <<2, 2>>},
     start |-> <<2, 3>>, goal |-> <<0, 0>>]

\* Every SmallRows x SmallCols grid of at most MaxObstacles obstacles with free
\* start and goal cells.
SmallInstances ==
    {inst \in [rows : {SmallRows}, cols : {SmallCols},
               grid : SUBSET Cells(SmallRows, SmallCols),
               start : Cells(SmallRows, SmallCols), goal : Cells(SmallRows, SmallCols)] :
        /\ Cardinality(inst.grid) <= MaxObstacles
        /\ inst.start \notin inst.grid
        /\ inst.goal \notin inst.grid}

SearchInit ==
    /\ \/ /\ \E inst \in SmallInstances :
                /\ rows = inst.rows
                /\ cols = inst.cols
                /\ grid = inst.grid
                /\ \E algorithm \in {"astar", "dijkstra", "greedy", "jps", "theta"} :
                      agent = [algorithm |-> algorithm, start |-> inst.start,
                               goal |-> inst.goal]
          /\ mapType \in {"grid", "navmesh"}
          /\ mapType = "navmesh" => agent.algorithm \in {"astar", "dijkstra", "greedy"}
       \/ /\ rows = Reopening.rows
          /\ cols = Reopening.cols
          /\ grid = Reopening.grid
          /\ agent = [algorithm |-> "astar", start |-> Reopening.start,
                      goal |-> Reopening.goal]
          /\ mapType = "grid"
    /\ navmesh = IF mapType = "navmesh" THEN generateNavMesh(grid, rows, cols) ELSE Null
    /\ result = None
    /\ pc = "idle"
    /\ localNavmesh = Null
    /\ tree = <<>>
    /\ iter = 0
    /\ nodesExplored = 0
    /\ exploredNodes = <<>>
    /\ PartsIdle

\* The search is called and reaches its loop, or returns null before it.
SearchStart ==
    /\ search = Null
    /\ result = None
    /\ LET st == SearchBegin(agent.algorithm, mapType, navmesh, agent.start, agent.goal,
                             grid, rows, cols)
       IN IF st = Null
          THEN result' = Null /\ UNCHANGED search
          ELSE search' = st /\ UNCHANGED result
    /\ UNCHANGED <<rows, cols, grid, mapType, agent, navmesh, pc, localNavmesh, tree, iter,
                   nodesExplored, exploredNodes, queue, enqueued, dequeued, funnelInput,
                   funnelOutput>>

\* One pass of the loop: a dequeue and what follows it.
SearchDequeue ==
    /\ search # Null
    /\ result = None
    /\ LET next == SearchStep(search, agent.algorithm, mapType, navmesh, agent.start,
                              agent.goal, grid, rows, cols)
       IN IF Searching(next)
          THEN search' = next /\ UNCHANGED result
          ELSE result' = next /\ UNCHANGED search
    /\ UNCHANGED <<rows, cols, grid, mapType, agent, navmesh, pc, localNavmesh, tree, iter,
                   nodesExplored, exploredNodes, queue, enqueued, dequeued, funnelInput,
                   funnelOutput>>

SearchNext == SearchStart \/ SearchDequeue

SearchSpec == SearchInit /\ [][SearchNext]_vars
(***************************************************************************)
(* The application: the operations of the UI between queries.  A UI        *)
(* operation runs while no planner call is running, and leaves no result   *)
(* of a call behind.                                                       *)
(***************************************************************************)
\* toggleObstacle(row, col): nothing on a start or goal cell of the agent.
ToggleObstacle(cell) ==
    /\ pc = "idle"
    /\ cell \notin {agent.start, agent.goal}
    /\ grid' = IF cell \in grid THEN grid \ {cell} ELSE grid \cup {cell}
    /\ navmesh' = IF mapType = "navmesh" THEN generateNavMesh(grid', rows, cols) ELSE navmesh
    /\ result' = None
    /\ UNCHANGED <<rows, cols, mapType, agent, pc, localNavmesh, tree, iter, nodesExplored,
                   exploredNodes, parts>>

\* clearObstacles(): every cell is freed; the navmesh is left as it is.
ClearObstacles ==
    /\ pc = "idle"
    /\ grid' = {}
    /\ result' = None
    /\ UNCHANGED <<rows, cols, mapType, agent, navmesh, pc, localNavmesh, tree, iter,
                   nodesExplored, exploredNodes, parts>>

\* The scenarios of the small grid: a map type ('both' switches nothing), the
\* obstacles and the agent.
SmallScenarios ==
    {scenario \in [mapType : {"grid", "navmesh", "both"},
                   obstacles : {{}, {<<0, 1>>, <<1, 1>>}},
                   algorithm : {"astar", "rrt"},
                   start : {<<0, 0>>}, goal : {<<0, 2>>}] : TRUE}

\* loadScenario(scenarioKey).
LoadScenario(scenario) ==
    /\ pc = "idle"
    /\ mapType' = IF scenario.mapType = "both" THEN mapType ELSE scenario.mapType
    /\ grid' = {cell \in scenario.obstacles : InBounds(cell, rows, cols)}
    /\ agent' = [algorithm |-> scenario.algorithm, start |-> scenario.start,
                 goal |-> scenario.goal]
    /\ navmesh' = IF mapType' = "navmesh" THEN generateNavMesh(grid', rows, cols)
                  ELSE IF mapType' # mapType THEN Null
                  ELSE navmesh
    /\ result' = None
    /\ UNCHANGED <<rows, cols, pc, localNavmesh, tree, iter, nodesExplored,
                   exploredNodes, parts>>

\* The application as constructed, with the agent placed.
AppInit ==
    /\ rows = SmallRows
    /\ cols = SmallCols
    /\ grid = {}
    /\ agent \in [algorithm : AlgorithmIds, start : Cells(SmallRows, SmallCols),
                  goal : Cells(SmallRows, SmallCols)]
    /\ mapType = "grid"
    /\ navmesh = Null
    /\ result = None
    /\ pc = "idle"
    /\ localNavmesh = Null
    /\ tree = <<>>
    /\ iter = 0
    /\ nodesExplored = 0
    /\ exploredNodes = <<>>
    /\ PartsIdle

AppNext ==
    \/ \E type \in {"grid", "navmesh"} : SetMapType(type)
    \/ \E cell \in Cells(rows, cols) : ToggleObstacle(cell)
    \/ ClearObstacles
    \/ \E scenario \in SmallScenarios : LoadScenario(scenario)
    \/ Next

AppSpec == AppInit /\ [][AppNext]_vars
(***************************************************************************)
(* Properties.  A call has returned when pc = "idle" and result is not     *)
(* None; the result then is that of agent.algorithm in mode mapType.       *)
(***************************************************************************)
HasPath(r) == r \notin {None, Null, Thrown}
GridReturned == pc = "idle" /\ mapType = "grid" /\ result # None
NavReturned == pc = "idle" /\ mapType = "navmesh" /\ result # None

\* A cell of the grid that is not an obstacle.
FreeCell(p) == InBounds(p, rows, cols) /\ p \notin grid

RECURSIVE BfsDistance(_, _, _, _, _, _, _)
BfsDistance(frontier, seen, d, goal, g, nrows, ncols) ==
    IF goal \in frontier THEN d
    ELSE IF frontier = {} THEN -1
    ELSE LET next == {q \in (Cells(nrows, ncols) \ g) \ seen :
                         \E p \in frontier : heuristic(p, q) = 1}
         IN BfsDistance(next, seen \cup next, d + 1, goal, g, nrows, ncols)
FourConnectedDistance(g, start, goal, nrows, ncols) ==
    BfsDistance({start}, {start}, 0, goal, g, nrows, ncols)

\* C2: dijkstra and astar return null exactly when the goal cannot be reached by
\* 4-connected moves through free cells, and otherwise a path with
\* pathCost = path.length - 1 = the 4-connected shortest distance.
C2_ShortestOrNull ==
    (GridReturned /\ agent.algorithm \in {"astar", "dijkstra"}) =>
        LET d == FourConnectedDistance(grid, agent.start, agent.goal, rows, cols)
        IN IF d < 0 THEN result = Null
           ELSE /\ HasPath(result)
                /\ result.metrics.pathCost = 10 * d
                /\ Len(result.path) - 1 = d

\* C2's case: astar has returned a path for a goal that obstacles put farther
\* away than its Manhattan distance.
C2_DetourFound ==
    /\ GridReturned
    /\ agent.algorithm = "astar"
    /\ HasPath(result)
    /\ Len(result.path) - 1 > heuristic(agent.start, agent.goal)

\* The cells of allowed reached from seen by steps between adjacent cells
\* (8-adjacent when eight, else 4-adjacent).
RECURSIVE Flood(_, _, _)
Flood(seen, allowed, eight) ==
    LET next == {q \in allowed \ seen :
                    \E p \in seen : IF eight THEN ChebyshevSteps(p, q) = 1
                                    ELSE heuristic(p, q) = 1}
    IN IF next = {} THEN seen ELSE Flood(seen \cup next, allowed, eight)

\* The free cells form one 4-connected region without holes: every obstacle cell
\* is joined to the border of the grid through obstacle cells.
SimplyConnected(g, nrows, ncols) ==
    LET free == Cells(nrows, ncols) \ g
        border == {p \in g : Row(p) \in {0, nrows - 1} \/ Col(p) \in {0, ncols - 1}}
    IN /\ free # {}
       /\ Flood({CHOOSE p \in free : TRUE}, free, FALSE) = free
       /\ Flood(border, g, TRUE) = g

\* C3: on an obstacle-free or simply-connected grid astar, dijkstra and jps all
\* return a path for the same start and goal, astar's and dijkstra's pathCost are
\* equal and jps's pathCost is within one rounding step (a tenth) of them.
C3_EqualCosts ==
    (/\ GridReturned
     /\ agent.algorithm = "jps"
     /\ (grid = {} \/ SimplyConnected(grid, rows, cols))) =>
        LET a == astar(grid, agent.start, agent.goal, rows, cols)
            d == dijkstra(grid, agent.start, agent.goal, rows, cols)
        IN /\ a # Null
           /\ d # Null
           /\ HasPath(result)
           /\ a.metrics.pathCost = d.metrics.pathCost
           /\ Abs(result.metrics.pathCost - a.metrics.pathCost) <= 1

\* A full row of obstacle cells strictly between the rows of start and goal, or a
\* full column of obstacle cells strictly between their columns.
WallBetween ==
    \/ \E r \in 0 .. rows - 1 :
          /\ Min2(Row(agent.start), Row(agent.goal)) < r
          /\ r < Max2(Row(agent.start), Row(agent.goal))
          /\ \A c \in 0 .. cols - 1 : <<r, c>> \in grid
    \/ \E c \in 0 .. cols - 1 :
          /\ Min2(Col(agent.start), Col(agent.goal)) < c
          /\ c < Max2(Col(agent.start), Col(agent.goal))
          /\ \A r \in 0 .. rows - 1 : <<r, c>> \in grid

\* C4: when a full row or column of obstacles lies between start and goal, every
\* grid algorithm returns null, rrt for every sequence of samples.
C4_WallGivesNull ==
    (GridReturned /\ WallBetween) => result = Null

\* C4's case: rrt has used up its iterations on a grid with such a wall.
C4_RrtBehindWall ==
    /\ GridReturned
    /\ WallBetween
    /\ agent.algorithm = "rrt"
    /\ result = Null

\* C5: a path returned by a grid or a navmesh algorithm starts at the query's
\* start and ends at the query's goal, also when start equals goal.
C5_Endpoints ==
    (pc = "idle" /\ HasPath(result)) =>
        /\ Len(result.path) >= 1
        /\ result.path[1] = agent.start
        /\ result.path[Len(result.path)] = agent.goal

\* C5's case: a navmesh algorithm has returned a path for a query whose start
\* equals its goal.
C5_StartIsGoal ==
    /\ NavReturned
    /\ HasPath(result)
    /\ agent.start = agent.goal

\* C6: every cell of the densified path returned by navmeshAStar,
\* navmeshDijkstra or navmeshGreedy is in the grid and not an obstacle.
C6_DensifiedCellsFree ==
    (NavReturned /\ agent.algorithm # "rrt" /\ HasPath(result)) =>
        \A k \in 1 .. Len(result.path) : FreeCell(result.path[k])

\* C7: every cell of a path returned by navmeshRRT is in the grid and not an
\* obstacle, the cells of the final segment to the goal included.
C7_RrtCellsFree ==
    (NavReturned /\ agent.algorithm = "rrt" /\ HasPath(result)) =>
        \A k \in 1 .. Len(result.path) : FreeCell(result.path[k])

\* The waypoint-level path of a navmesh result: start, waypoints, goal, after
\* the funnel for the searches that apply it (buildNavMeshResult).
WaypointLevelPath ==
    IF agent.algorithm \in {"dijkstra", "greedy"}
    THEN funnelAlgorithm(result.waypointPath, grid, rows, cols)
    ELSE result.waypointPath

\* C8: every consecutive pair (u, v) of the waypoint-level path of a result of
\* navmeshAStar, navmeshDijkstra or navmeshGreedy has hasLineOfSight(u, v).
C8_TravelLineOfSight ==
    (NavReturned /\ agent.algorithm # "rrt" /\ HasPath(result)) =>
        \A k \in 1 .. Len(WaypointLevelPath) - 1 :
            hasLineOfSight(WaypointLevelPath[k], WaypointLevelPath[k + 1],
                           grid, rows, cols)

\* The concrete scenario: the empty square grid, from (0,0) to the end of row 0.
Scenario ==
    /\ GridReturned
    /\ rows = ScenarioSize
    /\ cols = ScenarioSize
    /\ grid = {}
    /\ agent.start = <<0, 0>>
    /\ agent.goal = <<0, ScenarioSize - 1>>

C10_ThetaNoLonger ==
    (GridReturned /\ agent.algorithm = "theta" /\ HasPath(result)) =>
        LET a == astar(grid, agent.start, agent.goal, rows, cols)
        IN a # Null => result.metrics.pathCost <= a.metrics.pathCost

\* C10's case: thetaStar has returned a path cheaper than astar's.
C10_ThetaShorter ==
    /\ GridReturned
    /\ agent.algorithm = "theta"
    /\ HasPath(result)
    /\ astar(grid, agent.start, agent.goal, rows, cols) # Null
    /\ result.metrics.pathCost
          < astar(grid, agent.start, agent.goal, rows, cols).metrics.pathCost

\* C11: in a navmesh built by generateNavMesh every edge joins two distinct
\* waypoints with from < to that are at most 15 apart, its cost is their
\* distance and the rasterised segment from 'from' to 'to' holds no obstacle
\* cell; and every pair i < j at most 15 apart with hasLineOfSight(w_i, w_j) has
\* exactly one edge.
C11_EdgesOfMesh ==
    navmesh # Null =>
        LET waypoints == navmesh.waypoints
            edges == navmesh.edges
            ids == 0 .. Len(waypoints) - 1
            At(id) == WaypointPos(waypoints[id + 1])
        IN /\ \A k \in 1 .. Len(edges) :
                /\ edges[k].from \in ids
                /\ edges[k].to \in ids
                /\ edges[k].from < edges[k].to
                /\ At(edges[k].from) # At(edges[k].to)
                /\ DistSq(At(edges[k].from), At(edges[k].to)) <= 15 * 15
                /\ edges[k].cost = distance(At(edges[k].from), At(edges[k].to))
                /\ LET line == Bresenham(At(edges[k].from), At(edges[k].to))
                   IN \A c \in 1 .. Len(line) : line[c] \notin grid
           /\ \A i, j \in ids :
                (/\ i < j
                 /\ DistSq(At(i), At(j)) <= 15 * 15
                 /\ hasLineOfSight(At(i), At(j), grid, rows, cols)) =>
                    Cardinality({k \in 1 .. Len(edges) :
                                    edges[k].from = i /\ edges[k].to = j}) = 1

\* C11's case: a navmesh has been built that has an edge and has two waypoints
\* farther apart than 15.
C11_FarWaypoints ==
    /\ navmesh # Null
    /\ Len(navmesh.edges) > 0
    /\ \E i, j \in 1 .. Len(navmesh.waypoints) :
          DistSq(WaypointPos(navmesh.waypoints[i]), WaypointPos(navmesh.waypoints[j]))
              > 15 * 15

\* C12: funnelAlgorithm returns, for an input of length at least 1, a
\* subsequence of the input at strictly increasing input indices that begins
\* with the input's first element and ends with its last, so is no longer than
\* the input.
C12_FunnelSubsequence ==
    funnelOutput # None =>
        /\ Len(funnelOutput.path) >= 1
        /\ Len(funnelOutput.path) <= Len(funnelInput)
        /\ \E f \in [1 .. Len(funnelOutput.path) -> 1 .. Len(funnelInput)] :
              /\ f[1] = 1
              /\ f[Len(funnelOutput.path)] = Len(funnelInput)
              /\ \A k \in 1 .. Len(funnelOutput.path) - 1 : f[k] < f[k + 1]
              /\ \A k \in 1 .. Len(funnelOutput.path) : funnelOutput.path[k] = funnelInput[f[k]]

\* C12's case: the funnel has dropped a waypoint of its input.
C12_WaypointDropped ==
    /\ funnelOutput # None
    /\ Len(funnelInput) >= 3
    /\ Len(funnelOutput.path) < Len(funnelInput)


\* The elements enqueued and not yet returned by a dequeue.
Held == {e \in 1 .. Len(enqueued) :
            \A k \in 1 .. Len(dequeued) : dequeued[k] # [element |-> e]}

\* C19: in every state isEmpty is true exactly when every enqueued element has
\* been dequeued, and every dequeue either finds the queue empty, returns
\* undefined and leaves it empty, or removes and returns a held element of
\* minimal priority, the earliest enqueued among those of that priority.
C19_MinPriorityFifo ==
    /\ [](isEmpty(queue) <=> Held = {})
    /\ [][Len(dequeued') = Len(dequeued) + 1 =>
            LET returned == dequeued'[Len(dequeued')]
            IN IF Held = {}
               THEN returned = Undefined /\ isEmpty(queue')
               ELSE /\ returned # Undefined
                    /\ returned.element \in Held
                    /\ \A e \in Held :
                          /\ enqueued[returned.element] <= enqueued[e]
                          /\ enqueued[e] = enqueued[returned.element]
                                => returned.element <= e
                    /\ Held' = Held \ {returned.element}
                    /\ {queue'[i].element : i \in 1 .. Len(queue')} = Held']_vars

\* C19's case: a dequeue has returned the earlier of two elements of equal
\* priority although an element of larger priority was enqueued before both,
\* and a dequeue on the empty queue has returned undefined.
C19_TieAndEmpty ==
    /\ Len(enqueued) >= 3
    /\ Len(dequeued) >= 2
    /\ dequeued[1] = Undefined
    /\ dequeued[2] = [element |-> 2]
    /\ enqueued[1] > enqueued[2]
    /\ enqueued[3] = enqueued[2]


\* C14 as stated: every successful result, in grid mode and in navmesh mode,
\* carries an exploredNodes sequence whose length is metrics.nodesExplored.
C14_ExploredNodesCarried ==
    (pc = "idle" /\ HasPath(result)) =>
        /\ "exploredNodes" \in DOMAIN result
        /\ Len(result.exploredNodes) = result.metrics.nodesExplored

\* C15 as stated: a call of runGrid or runNavmesh never ends by raising an
\* error, and an unknown algorithm identifier yields null.
C15_NeverRaises ==
    pc = "idle" =>
        /\ result # Thrown
        /\ (agent.algorithm \notin {"astar", "dijkstra", "greedy", "rrt", "jps", "theta"}
               /\ result # None) => result = Null

\* C17: for 'jps' and 'theta' runNavmesh returns what navmeshAStar returns for
\* the same navmesh, start, goal and grid, a path or null, and never an error.
C17_FallsBackToAStar ==
    (NavReturned /\ agent.algorithm \in {"jps", "theta"}) =>
        /\ result # Thrown
        /\ result = navmeshAStar(navmesh, agent.start, agent.goal, grid, rows, cols)

\* C17's case: 'theta' in navmesh mode has returned a path through waypoints.
C17_ThetaOnNavmesh ==
    /\ NavReturned
    /\ agent.algorithm = "theta"
    /\ HasPath(result)
    /\ Len(result.waypointPath) >= 3


\* C13 as stated: in every queue-driven search each node is closed and counted
\* at most once, so nodesExplored is the number of distinct closed nodes while
\* the loop runs, and at return it is the number of distinct closed nodes with
\* the goal, the node the last dequeue took, among them.
C13_ClosedAndCountedOnce ==
    /\ (search # Null) => (search.nodesExplored = Cardinality(search.visited))
    /\ (search # Null /\ HasPath(result)) =>
           (result.metrics.nodesExplored =
               Cardinality(search.visited \cup {Front(search.openSet)}))


\* C16 as stated: rrt and navmeshRRT stop after at most maxIterations
\* iterations, add at most one tree node per iteration, and return null
\* whenever they end without a node within the goal threshold.
C16_RrtStopsWithNull ==
    /\ iter <= MaxIterations
    /\ Len(tree) <= iter + 1
    /\ (pc = "idle" /\ agent.algorithm = "rrt" /\ result # None /\ ~HasPath(result))
           => (result = Null)


\* C18 as stated: a call of runNavmesh always returns {result, navmesh}, the
\* mesh being the one the query ran on: the caller's mesh when one was
\* supplied, the mesh generateNavMesh builds for the grid when none was, also
\* when the result is null; the caller stores it.
C18_ReturnsMeshOfQuery ==
    [][mapType = "navmesh" =>
          LET supplied == IF navmesh = Null THEN generateNavMesh(grid, rows, cols)
                          ELSE navmesh
          IN /\ (pc = "idle" /\ pc' = "navrrt") =>
                    (localNavmesh' = supplied /\ navmesh' = navmesh)
             /\ (pc = "idle" /\ pc' = "idle" /\ result' # None) =>
                    /\ navmesh' = supplied
                    /\ result' = runNavmesh(agent.algorithm, supplied, agent.start,
                                            agent.goal, grid, rows, cols)
             /\ (pc = "navrrt" /\ pc' = "navrrt") =>
                    (localNavmesh' = localNavmesh /\ navmesh' = navmesh)
             /\ (pc = "navrrt" /\ pc' = "idle") =>
                    (result' # Thrown /\ navmesh' = localNavmesh)]_vars


\* C20 as stated: whenever startSimulation runs a query in navmesh mode, the
\* navmesh handed to runNavmesh is null or generateNavMesh of the current grid.
C20_QueryOnCurrentMesh ==
    [][(mapType = "navmesh" /\ pc = "idle" /\ (pc' = "navrrt" \/ result' # None)) =>
          (navmesh = Null \/ navmesh = generateNavMesh(grid, rows, cols))]_vars


\* C21 as stated: jps returns a path whenever astar returns one for the same
\* grid, start and goal, that is, whenever the goal is reachable by
\* 4-connected moves through free cells.
C21_JpsKeepsReachability ==
    (GridReturned /\ agent.algorithm = "jps"
        /\ HasPath(astar(grid, agent.start, agent.goal, rows, cols)))
        => HasPath(result)


\* C22 as stated: the path returned by navmeshAStar, navmeshDijkstra and
\* navmeshGreedy is smoothNavMeshPath of funnelAlgorithm of the waypoint path
\* from the true start to the true goal.
C22_FunnelThenDensify ==
    (NavReturned /\ HasPath(result) /\ agent.algorithm \in {"astar", "dijkstra", "greedy"})
        => (result.path =
               smoothNavMeshPath(funnelAlgorithm(result.waypointPath, grid, rows, cols)))


\* The waypoints of the stored navmesh that the point sees.
VisibleFrom(point) ==
    {w \in {navmesh.waypoints[k] : k \in 1 .. Len(navmesh.waypoints)} :
        hasLineOfSight(point, WaypointPos(w), grid, rows, cols)}

\* C23: findNearestWaypoint returns null exactly when the point sees no
\* waypoint, and otherwise a waypoint it sees at the least distance, of the
\* lowest id among those; navmeshAStar, navmeshDijkstra and navmeshGreedy
\* return null when the start or the goal resolves to null.
C23_NearestVisibleWaypoint ==
    (NavReturned /\ navmesh # Null) =>
        /\ \A point \in {agent.start, agent.goal} :
              LET nearest == findNearestWaypoint(navmesh.waypoints, point, grid, rows, cols)
              IN IF VisibleFrom(point) = {} THEN nearest = Null
                 ELSE /\ nearest \in VisibleFrom(point)
                      /\ \A w \in VisibleFrom(point) :
                            \/ DistSq(point, WaypointPos(nearest)) < DistSq(point, WaypointPos(w))
                            \/ /\ DistSq(point, WaypointPos(nearest))
                                     = DistSq(point, WaypointPos(w))
                               /\ nearest.id <= w.id
        /\ (/\ agent.algorithm \in {"astar", "dijkstra", "greedy"}
            /\ \E point \in {agent.start, agent.goal} : VisibleFrom(point) = {})
              => (result = Null)

\* C23's case: the start sees several waypoints, two of them at the least
\* distance and one farther, and the search has resolved it and returned a path.
C23_TieAmongVisible ==
    /\ NavReturned
    /\ navmesh # Null
    /\ agent.algorithm = "dijkstra"
    /\ HasPath(result)
    /\ \E w1, w2, w3 \in VisibleFrom(agent.start) :
          /\ w1.id < w2.id
          /\ w1 = findNearestWaypoint(navmesh.waypoints, agent.start, grid, rows, cols)
          /\ DistSq(agent.start, WaypointPos(w1)) = DistSq(agent.start, WaypointPos(w2))
          /\ DistSq(agent.start, WaypointPos(w1)) < DistSq(agent.start, WaypointPos(w3))


\* Two distinct cells that touch by a side or a corner.
Adjacent8(p, q) ==
    /\ p # q
    /\ Abs(Row(p) - Row(q)) <= 1
    /\ Abs(Col(p) - Col(q)) <= 1

\* C24: in a navmesh built by generateNavMesh every free cell of the grid that
\* is 8-adjacent to an obstacle cell is a waypoint, every waypoint is a free
\* cell of the grid, no two waypoints are on the same cell, and the waypoint at
\* list index i has id i.
C24_WaypointPlacement ==
    navmesh # Null =>
        LET waypoints == navmesh.waypoints
        IN /\ \A p \in Cells(rows, cols) \ grid :
                 (\E o \in grid : Adjacent8(p, o)) =>
                    (\E k \in 1 .. Len(waypoints) : WaypointPos(waypoints[k]) = p)
           /\ \A k \in 1 .. Len(waypoints) :
                 /\ FreeCell(WaypointPos(waypoints[k]))
                 /\ waypoints[k].id = k - 1
           /\ \A k, m \in 1 .. Len(waypoints) :
                 (WaypointPos(waypoints[k]) = WaypointPos(waypoints[m])) => (k = m)

\* C24's case: a mesh has a waypoint on a cell adjacent to two obstacle cells.
C24_SharedCorner ==
    /\ navmesh # Null
    /\ \E k \in 1 .. Len(navmesh.waypoints) :
          \E o1, o2 \in grid :
             /\ o1 # o2
             /\ Adjacent8(WaypointPos(navmesh.waypoints[k]), o1)
             /\ Adjacent8(WaypointPos(navmesh.waypoints[k]), o2)


\* Every consecutive pair of the path has line of sight, first to second.
SightAlong(path) ==
    \A k \in 1 .. Len(path) - 1 : hasLineOfSight(path[k], path[k + 1], grid, rows, cols)

\* C25: when every consecutive pair of funnelAlgorithm's input has line of
\* sight, every consecutive pair of its output has line of sight too.
C25_FunnelKeepsSight ==
    (funnelOutput # None /\ SightAlong(funnelInput)) => SightAlong(funnelOutput.path)

\* C25's case: on a grid with obstacles the funnel has dropped a waypoint of a
\* path with line of sight throughout, and has kept another because the
\* waypoint after it is hidden.
C25_WaypointKeptForSight ==
    /\ funnelOutput # None
    /\ grid # {}
    /\ SightAlong(funnelInput)
    /\ Len(funnelInput) = MaxPathLength
    /\ Len(funnelOutput.path) = MaxPathLength - 1
    /\ \E k \in 1 .. Len(funnelInput) - 2 :
          ~hasLineOfSight(funnelInput[k], funnelInput[k + 2], grid, rows, cols)


\* C26: in thetaStar a relaxed neighbour of the current node gets as its
\* predecessor the current node's own predecessor when that exists and has
\* lineOfSight to the neighbour, and the current node otherwise; and every
\* consecutive pair of a returned Theta* path is 8-adjacent or in line of
\* sight, with no obstacle cell on its rasterised segment.
C26_ThetaPredecessors ==
    /\ []((mapType = "grid" /\ agent.algorithm = "theta" /\ HasPath(result)) =>
             \A k \in 1 .. Len(result.path) - 1 :
                /\ \/ Adjacent8(result.path[k], result.path[k + 1])
                   \/ lineOfSight(result.path[k], result.path[k + 1], grid)
                /\ \A cell \in {Bresenham(result.path[k], result.path[k + 1])[i] :
                                  i \in 1 .. Len(Bresenham(result.path[k],
                                                           result.path[k + 1]))} :
                      cell \notin grid)
    /\ [][(mapType = "grid" /\ agent.algorithm = "theta" /\ search # Null
              /\ search' # search) =>
             LET current == Front(search.openSet)
             IN \A neighbor \in DOMAIN search'.cameFrom :
                   (\/ neighbor \notin DOMAIN search.cameFrom
                    \/ search'.cameFrom[neighbor] # search.cameFrom[neighbor]) =>
                      /\ Adjacent8(current, neighbor)
                      /\ search'.cameFrom[neighbor] =
                            IF /\ current \in DOMAIN search.cameFrom
                               /\ lineOfSight(search.cameFrom[current], neighbor, grid)
                            THEN search.cameFrom[current]
                            ELSE current]_vars

\* C26's case: a Theta* path has a segment between cells that are not adjacent.
C26_AnyAngleSegment ==
    /\ mapType = "grid"
    /\ agent.algorithm = "theta"
    /\ search # Null
    /\ HasPath(result)
    /\ grid # {}
    /\ \E k \in 1 .. Len(result.path) - 1 :
          ~Adjacent8(result.path[k], result.path[k + 1])


\* Every node of the tree but the root is a free cell of the grid, and no cell
\* of the rasterised segment from its parent to it is an obstacle.
TreeClear(t) ==
    \A k \in 2 .. Len(t) :
        /\ FreeCell(t[k].position)
        /\ t[k].parent \in 1 .. k - 1
        /\ \A i \in 0 .. ChebyshevSteps(t[t[k].parent].position, t[k].position) :
              SampleCell(t[t[k].parent].position, t[k].position, i) \notin grid

\* C27: at every point of rrt and navmeshRRT, whatever the samples, the tree
\* is clear of obstacles, node by node and segment by segment, also the tree
\* rrt returns; and an iteration either adds one node and counts it or, the
\* candidate being rejected, leaves the tree and nodesExplored as they are.
C27_TreeClearOfObstacles ==
    /\ [](/\ TreeClear(tree)
          /\ (GridReturned /\ agent.algorithm = "rrt" /\ HasPath(result))
                => TreeClear(result.tree))
    /\ [][(pc \in {"rrt", "navrrt"} /\ pc' = pc) =>
             \/ tree' = tree /\ nodesExplored' = nodesExplored
             \/ /\ Len(tree') = Len(tree) + 1
                /\ SubSeq(tree', 1, Len(tree)) = tree
                /\ nodesExplored' = nodesExplored + 1]_vars

\* C27's case: on a grid with obstacles, two iterations have passed, one has
\* added a node next to an obstacle and the candidate of the other was rejected.
C27_TreeGrownPastObstacle ==
    /\ pc \in {"rrt", "navrrt"}
    /\ grid # {}
    /\ iter = MaxIterations
    /\ Len(tree) = MaxIterations
    /\ \E o \in grid : Adjacent8(o, tree[Len(tree)].position)


\* The cells of the straight run from u to v, both included, for u and v on a
\* common row, column or diagonal.
StraightRun(u, v) ==
    LET steps == Max2(Abs(Row(v) - Row(u)), Abs(Col(v) - Col(u)))
        sign(d) == IF d > 0 THEN 1 ELSE IF d < 0 THEN -1 ELSE 0
    IN {<<Row(u) + i * sign(Row(v) - Row(u)), Col(u) + i * sign(Col(v) - Col(u))>> :
           i \in 0 .. steps}

\* C28: every consecutive pair of a path jps returns lies on a common row,
\* column or diagonal, and the two positions and every cell between them on
\* that line are free cells of the grid.
C28_JpsSegmentsStraightAndFree ==
    (GridReturned /\ agent.algorithm = "jps" /\ HasPath(result)) =>
        \A k \in 1 .. Len(result.path) - 1 :
           LET u == result.path[k]
               v == result.path[k + 1]
           IN /\ \/ Row(u) = Row(v)
                 \/ Col(u) = Col(v)
                 \/ Abs(Row(v) - Row(u)) = Abs(Col(v) - Col(u))
              /\ \A cell \in StraightRun(u, v) : FreeCell(cell)

\* C28's case: on a grid with obstacles a jps path has a segment that skips
\* a cell.
C28_JumpedSegment ==
    /\ GridReturned
    /\ agent.algorithm = "jps"
    /\ HasPath(result)
    /\ grid # {}
    /\ \E k \in 1 .. Len(result.path) - 1 :
          ~Adjacent8(result.path[k], result.path[k + 1])


\* The deepest value of depth among the calls that jump(current, dir, ..., depth)
\* makes, itself included; the second cardinal scan of a diagonal step is made
\* only when the first returned null, and the scan goes on only when both did.
RECURSIVE JumpDepth(_, _, _, _, _, _, _)
JumpDepth(current, dir, g, nrows, ncols, goal, depth) ==
    IF depth > MaxJumpDepth THEN depth
    ELSE LET next == <<Row(current) + dir[1], Col(current) + dir[2]>>
         IN IF ~InBounds(next, nrows, ncols) \/ next \in g THEN depth
            ELSE IF next = goal THEN depth
            ELSE IF dir[1] # 0 /\ dir[2] # 0
                 THEN LET first == JumpDepth(next, <<dir[1], 0>>, g, nrows, ncols, goal, depth + 1)
                      IN IF jump(next, <<dir[1], 0>>, g, nrows, ncols, goal, depth + 1) # Null
                         THEN first
                         ELSE LET second == Max2(first,
                                      JumpDepth(next, <<0, dir[2]>>, g, nrows, ncols, goal, depth + 1))
                              IN IF jump(next, <<0, dir[2]>>, g, nrows, ncols, goal, depth + 1) # Null
                                 THEN second
                                 ELSE Max2(second,
                                           JumpDepth(next, dir, g, nrows, ncols, goal, depth + 1))
                 ELSE IF hasForcedNeighbor(next, dir, g, nrows, ncols) THEN depth
                      ELSE JumpDepth(next, dir, g, nrows, ncols, goal, depth + 1)

\* The scan of jump without its depth guard.
RECURSIVE JumpUnguarded(_, _, _, _, _, _)
JumpUnguarded(current, dir, g, nrows, ncols, goal) ==
    LET next == <<Row(current) + dir[1], Col(current) + dir[2]>>
    IN IF ~InBounds(next, nrows, ncols) \/ next \in g THEN Null
       ELSE IF next = goal THEN next
       ELSE IF dir[1] # 0 /\ dir[2] # 0
            THEN IF \/ JumpUnguarded(next, <<dir[1], 0>>, g, nrows, ncols, goal) # Null
                    \/ JumpUnguarded(next, <<0, dir[2]>>, g, nrows, ncols, goal) # Null
                 THEN next
                 ELSE JumpUnguarded(next, dir, g, nrows, ncols, goal)
            ELSE IF hasForcedNeighbor(next, dir, g, nrows, ncols) THEN next
                 ELSE JumpUnguarded(next, dir, g, nrows, ncols, goal)

\* C29: a call of jump from any cell of the grid in any of the eight directions
\* recurses to a depth of at most rows + cols, and where rows + cols is at most
\* the guard's limit it returns the jump point of the scan without the guard.
C29_JumpDepthBounded ==
    agent.algorithm = "jps" =>
        \A current \in Cells(rows, cols) :
           \A i \in 1 .. 8 :
              LET dir == (Directions4 \o Diagonals)[i]
              IN /\ JumpDepth(current, dir, grid, rows, cols, agent.goal, 0) <= rows + cols
                 /\ rows + cols <= MaxJumpDepth =>
                       LET guarded == jump(current, dir, grid, rows, cols, agent.goal, 0)
                           unguarded == JumpUnguarded(current, dir, grid, rows, cols, agent.goal)
                       IN IF guarded # Null /\ unguarded # Null
                          THEN guarded = unguarded
                          ELSE (guarded # Null) = (unguarded # Null)

\* C29's case: on a grid with obstacles jps has returned and a scan from its
\* start recursed at least twice before it returned a jump point.
C29_DeepScan ==
    /\ GridReturned
    /\ agent.algorithm = "jps"
    /\ grid # {}
    /\ \E i \in 1 .. 8 :
          LET dir == (Directions4 \o Diagonals)[i]
          IN /\ JumpDepth(agent.start, dir, grid, rows, cols, agent.goal, 0) >= 2
             /\ jump(agent.start, dir, grid, rows, cols, agent.goal, 0) # Null


\* C30 as stated: on every grid, for all in-bounds cells a and b,
\* hasLineOfSight(a, b, grid) equals hasLineOfSight(b, a, grid) and
\* lineOfSight(a, b, grid) equals lineOfSight(b, a, grid).
C30_LineOfSightSymmetric ==
    \A a \in Cells(rows, cols) :
       \A b \in Cells(rows, cols) :
          /\ hasLineOfSight(a, b, grid, rows, cols) = hasLineOfSight(b, a, grid, rows, cols)
          /\ lineOfSight(a, b, grid) = lineOfSight(b, a, grid)

====
